---- MODULE Spec2Model ----
(***************************************************************************)
(* Model of the second_brain capture -> queue -> OCR -> storage pipeline.  *)
(*                                                                         *)
(* The pipeline runs on one asyncio event loop: a coroutine runs without   *)
(* interruption from one await that suspends to the next, so every action  *)
(* below is the code between two suspension points.                        *)
(***************************************************************************)
EXTENDS Integers, Sequences, FiniteSets, TLC

\* ------------------------------------------------------------------ bounds
\* Frames the capture service produces in one behaviour.
MaxFrames == 2
\* ocr.batch_size as configured for the model (processing_pipeline.py:38).
batch_size == 2
\* start() calls that launch loops in one behaviour.
MaxStarts == 2
\* stop() calls in one behaviour.
MaxStops == 2

FrameIds == 1..MaxFrames
Tasks == 1..MaxStarts
StopCalls == 1..MaxStops

Min(a, b) == IF a <= b THEN a ELSE b

\* ---------------------------------------------------------------- variables
VARIABLES
    running,          \* ProcessingPipeline.running
    ocr_queue,        \* ProcessingPipeline.ocr_queue (deque of frames)
    stats,            \* ProcessingPipeline.stats
    capture_task,     \* ProcessingPipeline.capture_task (0 = None)
    ocr_task,         \* ProcessingPipeline.ocr_task (0 = None)
    capPc,            \* position of each _capture_loop task
    ocrPc,            \* position of each _ocr_loop task
    batch,            \* local `batch` of each _ocr_loop task
    stopPc,           \* position of each stop() call
    stopWait,         \* the task a suspended stop() call awaits
    ready,            \* the event loop's FIFO of runnable coroutines
    cur,              \* the coroutine that holds the thread past a step
    conn,             \* Database.conn is not None
    db_frames,        \* frame ids with a row in frames
    db_blocks,        \* frame ids with rows in text_blocks
    vec_index,        \* frame ids with vectors in the index
    window_tracking,  \* frame ids for which update_window_tracking ran
    launched,         \* number of start() calls that launched loops
    captured,         \* history: frames handed over by capture_frame
    dispatched,       \* history: times each frame was popped into a batch
    attempted,        \* history: frames whose insert_frame was called
    last_batch,       \* history: the batch the pair loop ran over last
    batch_failed      \* history: frames of batches whose process_batch raised

pipeVars == <<running, ocr_queue, stats, capture_task, ocr_task, capPc, ocrPc,
              batch, stopPc, stopWait, ready, cur, conn, db_frames, db_blocks,
              vec_index, window_tracking, launched, captured, dispatched,
              attempted, last_batch, batch_failed>>

VARIABLES
    impl,             \* which OCR class serves the calls: "openai" or "apple"
    image_paths,      \* argument of each caller's process_batch call
    obPc,             \* position of each process_batch caller
    idx,              \* index of the item each caller is at
    attempt,          \* `attempt` of the retry loop of extract_text
    timer,            \* time left of the asyncio.sleep a caller is in
    results,          \* the list process_batch is building
    lock_holder,      \* OpenAIOCR._rate_limit_lock: its holder (0 = free)
    lock_waiters,     \* callers queued on the lock, in arrival order
    since_last,       \* time.time() - last_request_time, capped at the interval
    since_exit,       \* history: time since a caller last left the gate, capped
    gate_used,        \* history: some caller has left the gate
    calls,            \* history: provider calls made for the current item
    gates,            \* history: gate passes made for the current item
    raised            \* history: the items of each caller whose extract_text raised

ocrVars == <<impl, image_paths, obPc, idx, attempt, timer, results,
             lock_holder, lock_waiters, since_last, since_exit, gate_used,
             calls, gates, raised>>

VARIABLES
    last_hash,        \* FrameDiffer.last_hash: <<>> for None, else <<hash>>
    frames_captured,  \* FrameDiffer.frames_captured
    frames_skipped,   \* FrameDiffer.frames_skipped
    image,            \* the image of the last should_capture_frame call
    kept              \* what that call returned

differVars == <<last_hash, frames_captured, frames_skipped, image, kept>>

VARIABLES
    db_error          \* how the last Database call ended: "none" or the exception

VARIABLES
    idle_threshold,   \* ActivityMonitor.idle_threshold, in seconds
    active_fps,       \* ActivityMonitor.active_fps, in tenths of a frame per second
    idle_fps,         \* ActivityMonitor.idle_fps, in tenths of a frame per second
    seconds_idle,     \* what get_seconds_since_last_input returned last
    probe_failed,     \* whether the Quartz call raised in that call
    adaptive_fps      \* what get_adaptive_fps returned last (0 before any call)

monitorVars == <<idle_threshold, active_fps, idle_fps, seconds_idle,
                 probe_failed, adaptive_fps>>

VARIABLES
    free_gb,              \* free space of the disk holding frames_dir, in GB
    dir_usage,            \* what the files under frames_dir occupy, in GB
    frames_dir_usage,     \* CaptureService._frames_dir_usage_bytes, in GB
    screenshots,          \* how often the screencapture command was run
    svc_frames_captured,  \* CaptureService.frames_captured
    svc_frames_skipped,   \* CaptureService.frames_skipped
    capture_calls,        \* calls of capture_frame so far
    outcome               \* how the last capture_frame call ended

serviceVars == <<free_gb, dir_usage, frames_dir_usage, screenshots,
                 svc_frames_captured, svc_frames_skipped, capture_calls, outcome>>

VARIABLES
    surface,          \* who asked: "api", "cli" or "ui" ("none" before any search)
    candidates,       \* what collection.query returned, nearest first
    rerank,           \* the rerank argument of EmbeddingService.search
    reranker,         \* the cross-encoder: "none", "ok" or "raises"
    matches,          \* what EmbeddingService.search returned
    pos,              \* the match the surface is resolving
    phase,            \* "idle", or the lookup the surface makes next
    frame_found,      \* whether get_frame returned a row for matches[pos]
    search_results,   \* the results the surface has collected
    search_error      \* whether the surface reported an error

searchVars == <<surface, candidates, rerank, reranker, matches, pos, phase,
                frame_found, search_results, search_error>>

VARIABLES
    frame_rows,       \* the row of the frames table under each frame_id
    frame_data,       \* the record last passed to insert_frame under each id
    fetched_id,       \* the id last passed to get_frame (0 before any call)
    fetched           \* what that get_frame call returned

recordVars == <<frame_rows, frame_data, fetched_id, fetched>>

VARIABLES
    api_key,             \* os.getenv(api_key_env): "present" or "missing"
    embeddings_enabled,  \* config embeddings.enabled
    provider,            \* config embeddings.provider
    backend_ok,          \* the provider's library is installed and its model loads
    constructed,         \* ProcessingPipeline(config): "no", "yes" or "raised"
    construct_error      \* the exception the constructor raised

startupVars == <<api_key, embeddings_enabled, provider, backend_ok, constructed,
                 construct_error>>

VARIABLES
    thread,           \* the loop running on the event-loop thread, or "idle"
    cap_at,           \* where the capture loop is in its iteration
    proc_at,          \* where the processing loop is in its iteration
    waiting,          \* len(ocr_queue)
    in_batch          \* entries of the batch in flight not yet stored

cadenceVars == <<thread, cap_at, proc_at, waiting, in_batch>>

VARIABLES
    enable_adaptive_fps,  \* config capture.enable_adaptive_fps
    loop_kind,            \* the loop that ran last: "pipeline", "service" or "none"
    current_fps,          \* the rate its interval was computed from, in tenths
    elapsed,              \* what the capture took, in milliseconds
    sleep_time            \* the sleep after it, in milliseconds (-1: none yet)

loopVars == <<enable_adaptive_fps, loop_kind, current_fps, elapsed, sleep_time>>

VARIABLES
    collection,       \* the entries of the vector collection
    embed_calls,      \* calls of _embed_texts so far
    add_calls,        \* calls of collection.add so far
    index_calls       \* calls of index_text_blocks so far

indexVars == <<collection, embed_calls, add_calls, index_calls>>

VARIABLES
    objects,          \* the nested dict objects of the process, by identity
    config,           \* Config.config of each instance: section -> dict object
    settings_file,    \* settings.json: <<>> when absent, else <<content>>
    got               \* per key, what the last get of it returned

configVars == <<objects, config, settings_file, got>>

VARIABLES
    emitted,          \* the text blocks extract_text has returned
    extract_calls     \* how many responses have been handled

blockVars == <<emitted, extract_calls>>

vars == <<pipeVars, ocrVars, differVars, db_error, monitorVars, serviceVars,
          searchVars, recordVars, startupVars,
      cadenceVars, loopVars, indexVars, configVars, blockVars>>

\* What an action of one component leaves alone.
nonPipeVars == <<ocrVars, differVars, db_error,
                 monitorVars, serviceVars, searchVars, recordVars, startupVars,
      cadenceVars, loopVars, indexVars, configVars, blockVars>>
nonOcrVars == <<pipeVars, differVars, db_error,
                monitorVars, serviceVars, searchVars, recordVars, startupVars,
      cadenceVars, loopVars, indexVars, configVars, blockVars>>
nonDifferVars == <<pipeVars, ocrVars, db_error,
                   monitorVars, serviceVars, searchVars, recordVars, startupVars,
      cadenceVars, loopVars, indexVars, configVars, blockVars>>
nonMonitorVars == <<pipeVars, ocrVars, differVars, db_error,
                    serviceVars, searchVars, recordVars, startupVars,
      cadenceVars, loopVars, indexVars, configVars, blockVars>>
nonServiceVars == <<pipeVars, ocrVars, db_error,
                    monitorVars, searchVars, recordVars, startupVars,
      cadenceVars, loopVars, indexVars, configVars, blockVars>>
nonSearchVars == <<pipeVars, ocrVars, differVars, db_error, monitorVars, serviceVars,
                   recordVars, startupVars,
      cadenceVars, loopVars, indexVars, configVars, blockVars>>
nonRecordVars == <<ocrVars, differVars, monitorVars, serviceVars, searchVars,
                   startupVars, cadenceVars, loopVars, indexVars, configVars, blockVars>>
nonStartupVars == <<pipeVars, ocrVars, differVars, db_error, monitorVars,
                    serviceVars, searchVars, recordVars, cadenceVars, loopVars, indexVars, configVars, blockVars>>
nonCadenceVars == <<pipeVars, ocrVars, differVars, db_error, monitorVars,
                    serviceVars, searchVars, recordVars, startupVars, loopVars, indexVars, configVars, blockVars>>
nonLoopVars == <<pipeVars, ocrVars, differVars, db_error, monitorVars,
                 serviceVars, searchVars, recordVars, startupVars, cadenceVars, indexVars, configVars, blockVars>>
nonIndexVars ==
    <<pipeVars, ocrVars, differVars, db_error, monitorVars,
                 serviceVars, searchVars, recordVars, startupVars, cadenceVars, loopVars, configVars, blockVars>>
nonConfigVars ==
    <<pipeVars, ocrVars, differVars, db_error, monitorVars,
                 serviceVars, searchVars, recordVars, startupVars, cadenceVars, loopVars, indexVars, blockVars>>
nonBlockVars ==
    <<pipeVars, ocrVars, differVars, db_error, monitorVars,
                 serviceVars, searchVars, recordVars, startupVars, cadenceVars, loopVars, indexVars, configVars>>

\* ------------------------------------------------------------ the event loop
\* asyncio runs the callbacks of its ready queue in FIFO order, one at a time.
\* A coroutine runs from one suspension to the next; create_task and the
\* completion of an awaited task append to the queue; a timer or an I/O
\* completion appends the suspended coroutine at some later time.
None == <<"none", 0>>
App == <<"app", 0>>
Cap(g) == <<"cap", g>>
Ocr(g) == <<"ocr", g>>
Stop(c) == <<"stop", c>>

\* Coroutine h takes the next step: it is at the head of the ready queue and
\* no coroutine holds the thread, or it holds the thread itself.
Turn(h) ==
    \/ cur = None /\ ready # <<>> /\ Head(ready) = h
    \/ cur = h

\* The ready queue once h has been taken off it.
Rest(h) == IF cur = h THEN ready ELSE Tail(ready)

\* The stop() calls suspended on task g in state pc, in the order they began.
Waiters(pc, g) ==
    SelectSeq([c \in StopCalls |-> Stop(c)],
              LAMBDA h : stopPc[h[2]] = pc /\ stopWait[h[2]] = g)

\* ------------------------------------------------------------ ProcessingPipeline
\* __init__: empty queue, not running, no tasks, zeroed statistics, open database.
InitPipeline ==
    /\ running = FALSE
    /\ ocr_queue = <<>>
    /\ stats = [frames_captured |-> 0, frames_processed |-> 0,
                frames_failed |-> 0, ocr_queue_size |-> 0]
    /\ capture_task = 0
    /\ ocr_task = 0
    /\ capPc = [g \in Tasks |-> "none"]
    /\ ocrPc = [g \in Tasks |-> "none"]
    /\ batch = [g \in Tasks |-> <<>>]
    /\ stopPc = [c \in StopCalls |-> "idle"]
    /\ stopWait = [c \in StopCalls |-> 0]
    /\ ready = <<>>
    /\ cur = None
    /\ conn = TRUE
    /\ db_frames = {}
    /\ db_blocks = {}
    /\ vec_index = {}
    /\ window_tracking = {}
    /\ launched = 0
    /\ captured = 0
    /\ dispatched = [f \in FrameIds |-> 0]
    /\ attempted = {}
    /\ last_batch = <<>>
    /\ batch_failed = {}

CaptureLive(g) == capPc[g] \in {"ready", "sleep"}
OcrLive(g) == ocrPc[g] \in {"ready", "sleep", "ocr", "results"}

\* A coroutine of the application (the CLI's run(), a signal handler's task)
\* becomes runnable.
AppArrive ==
    /\ cur = None
    /\ \A i \in 1..Len(ready) : ready[i] # App
    /\ launched < MaxStarts \/ \E c \in StopCalls : stopPc[c] = "idle"
    /\ ready' = Append(ready, App)
    /\ UNCHANGED <<running, ocr_queue, stats, capture_task, ocr_task, capPc,
                   ocrPc, batch, stopPc, stopWait, cur, conn, db_frames,
                   db_blocks, vec_index, window_tracking, launched, captured,
                   dispatched, attempted, last_batch, batch_failed, nonPipeVars>>

\* The application coroutine suspends or ends.
AppYield ==
    /\ Turn(App)
    /\ ready' = Rest(App)
    /\ cur' = None
    /\ UNCHANGED <<running, ocr_queue, stats, capture_task, ocr_task, capPc,
                   ocrPc, batch, stopPc, stopWait, conn, db_frames, db_blocks,
                   vec_index, window_tracking, launched, captured, dispatched,
                   attempted, last_batch, batch_failed, nonPipeVars>>

\* start() on a pipeline that is not running: sets the flag and creates both
\* tasks; the caller goes on.
Start ==
    /\ Turn(App)
    /\ ~running
    /\ launched < MaxStarts
    /\ running' = TRUE
    /\ launched' = launched + 1
    /\ capture_task' = launched + 1
    /\ ocr_task' = launched + 1
    /\ capPc' = [capPc EXCEPT ![launched + 1] = "ready"]
    /\ ocrPc' = [ocrPc EXCEPT ![launched + 1] = "ready"]
    /\ ready' = Rest(App) \o <<Cap(launched + 1), Ocr(launched + 1)>>
    /\ cur' = App
    /\ UNCHANGED <<ocr_queue, stats, batch, stopPc, stopWait, conn, db_frames,
                   db_blocks, vec_index, window_tracking, captured, dispatched,
                   attempted, last_batch, batch_failed, nonPipeVars>>

\* start() on a running pipeline: logs a warning and returns.
StartNoop ==
    /\ cur = None
    /\ Turn(App)
    /\ running
    /\ ready' = Rest(App)
    /\ cur' = App
    /\ UNCHANGED <<running, ocr_queue, stats, capture_task, ocr_task, capPc,
                   ocrPc, batch, stopPc, stopWait, conn, db_frames, db_blocks,
                   vec_index, window_tracking, launched, captured, dispatched,
                   attempted, last_batch, batch_failed, nonPipeVars>>

\* --------------------------------------------------------------- _capture_loop
\* After an iteration: asyncio.sleep(sleep_time) when sleep_time > 0 suspends
\* the task; with sleep_time = 0 the loop goes on without yielding.
CaptureAfter(g, yields) ==
    /\ capPc' = [capPc EXCEPT ![g] = IF yields THEN "sleep" ELSE "ready"]
    /\ cur' = IF yields THEN None ELSE Cap(g)
    /\ ready' = Rest(Cap(g))

\* The sleep of a capture task is over.
CaptureWake(g) ==
    /\ cur = None
    /\ capPc[g] = "sleep"
    /\ capPc' = [capPc EXCEPT ![g] = "ready"]
    /\ ready' = Append(ready, Cap(g))
    /\ UNCHANGED <<running, ocr_queue, stats, capture_task, ocr_task, ocrPc,
                   batch, stopPc, stopWait, cur, conn, db_frames, db_blocks,
                   vec_index, window_tracking, launched, captured, dispatched,
                   attempted, last_batch, batch_failed, nonPipeVars>>

\* while self.running: false -> the loop ends, and the stop() calls awaiting
\* the task become runnable.
CaptureExit(g) ==
    /\ Turn(Cap(g))
    /\ ~running
    /\ capPc' = [capPc EXCEPT ![g] = "done"]
    /\ ready' = Rest(Cap(g)) \o Waiters("await_capture", g)
    /\ cur' = None
    /\ UNCHANGED <<running, ocr_queue, stats, capture_task, ocr_task, ocrPc,
                   batch, stopPc, stopWait, conn, db_frames, db_blocks,
                   vec_index, window_tracking, launched, captured, dispatched,
                   attempted, last_batch, batch_failed, nonPipeVars>>

\* capture_frame returned metadata: the frame is appended to the queue.
CaptureFrame(g) ==
    /\ Turn(Cap(g))
    /\ running
    /\ captured < MaxFrames
    /\ captured' = captured + 1
    /\ ocr_queue' = Append(ocr_queue, captured + 1)
    /\ stats' = [stats EXCEPT !.frames_captured = @ + 1,
                              !.ocr_queue_size = Len(ocr_queue) + 1]
    /\ \E yields \in BOOLEAN : CaptureAfter(g, yields)
    /\ UNCHANGED <<running, capture_task, ocr_task, ocrPc, batch, stopPc,
                   stopWait, conn, db_frames, db_blocks, vec_index,
                   window_tracking, launched, dispatched, attempted,
                   last_batch, batch_failed, nonPipeVars>>

\* capture_frame returned None (disk budget, screenshot failure, similar frame,
\* caught exception): nothing is queued.
CaptureNone(g) ==
    /\ Turn(Cap(g))
    /\ running
    /\ \E yields \in BOOLEAN : CaptureAfter(g, yields)
    /\ UNCHANGED <<running, ocr_queue, stats, capture_task, ocr_task, ocrPc,
                   batch, stopPc, stopWait, conn, db_frames, db_blocks,
                   vec_index, window_tracking, launched, captured, dispatched,
                   attempted, last_batch, batch_failed, nonPipeVars>>

\* capture_frame raised: _get_frame_path (mkdir) runs outside its try block,
\* and _capture_loop has no handler, so the task ends with the exception.
CaptureRaise(g) ==
    /\ Turn(Cap(g))
    /\ running
    /\ capPc' = [capPc EXCEPT ![g] = "raised"]
    /\ ready' = Rest(Cap(g)) \o Waiters("await_capture", g)
    /\ cur' = None
    /\ UNCHANGED <<running, ocr_queue, stats, capture_task, ocr_task, ocrPc,
                   batch, stopPc, stopWait, conn, db_frames, db_blocks,
                   vec_index, window_tracking, launched, captured, dispatched,
                   attempted, last_batch, batch_failed, nonPipeVars>>

\* ------------------------------------------------------------------ _ocr_loop
\* What one (entry, OCR result) pair meets: whether process_batch returned
\* blocks for it, and which call of the pair raises (a database error, an
\* embedding error), if any.
Faults == {"none", "insert_frame", "insert_text_blocks", "index_text_blocks",
           "update_window_tracking"}

PairOutcomes ==
    {o \in [blocks : BOOLEAN, fault : Faults] :
        o.fault \in {"insert_text_blocks", "index_text_blocks"} => o.blocks}

\* frame_id is the key of the frames table and block_id the key of the
\* text_blocks table (the spec: FrameRecord and TextBlock have a unique id).
FramesKeyTaken(rows, f) == f \in rows
BlockKeyTaken(rows, b) == \E r \in rows : r.block_id = b.block_id

\* Database.insert_frame: a plain INSERT and a commit. With the connection
\* closed, self.conn.cursor() raises.
insert_frame(rows, f, open) ==
    IF ~open THEN [rows |-> rows, error |-> "AttributeError"]
    ELSE IF FramesKeyTaken(rows, f) THEN [rows |-> rows, error |-> "IntegrityError"]
    ELSE [rows |-> rows \cup {f}, error |-> "none"]

\* Database.insert_text_blocks for the list extract_text returns (no block or
\* one): a plain INSERT per block and a commit.
insert_text_blocks(rows, bs, open) ==
    IF ~open THEN [rows |-> rows, error |-> "AttributeError"]
    ELSE IF \E i \in 1..Len(bs) : BlockKeyTaken(rows, bs[i])
    THEN [rows |-> rows, error |-> "IntegrityError"]
    ELSE [rows |-> rows \cup {bs[i] : i \in 1..Len(bs)}, error |-> "none"]

\* The row of the block OCR produced for frame f (its block_id is a fresh uuid).
BlockOf(f) == [block_id |-> f, frame_id |-> f]

\* The storage and counters the pair loop writes.
Store ==
    [frames |-> db_frames, blocks |-> db_blocks, index |-> vec_index,
     windows |-> window_tracking, processed |-> stats.frames_processed,
     failed |-> stats.frames_failed, attempted |-> attempted]

\* if text_blocks: an empty list skips insert_text_blocks and the index call.
HasBlocks_Always(o) == TRUE
HasBlocks(o) == o.blocks

\* except Exception in the pair loop: the frame is counted failed.
PairFailed(s) == [s EXCEPT !.failed = @ + 1]

\* A pair loop that counts a failed insert_frame and goes on with the pair.
StorePair_NoAbort(s, f, o, open) ==
    LET r1 == insert_frame(s.frames, f, open)
        failed == r1.error # "none" \/ o.fault = "insert_frame"
        s1 == [s EXCEPT !.attempted = @ \cup {f},
                        !.frames = IF failed THEN @ ELSE r1.rows]
        s2 == IF HasBlocks(o)
              THEN [s1 EXCEPT !.blocks = @ \cup {BlockOf(f)}, !.index = @ \cup {f}]
              ELSE s1
    IN  IF failed THEN PairFailed(s2)
        ELSE [s2 EXCEPT !.windows = @ \cup {f}, !.processed = @ + 1]

\* The body of the pair loop for frame f (lines 121-159). With the connection
\* closed, insert_frame raises on self.conn.cursor().
StorePair(s, f, o, open) ==
    LET s0 == [s EXCEPT !.attempted = @ \cup {f}]
        r1 == insert_frame(s.frames, f, open)
        s1 == [s0 EXCEPT !.frames = r1.rows]
        r2 == insert_text_blocks(s.blocks, <<BlockOf(f)>>, open)
        s2 == IF HasBlocks(o) THEN [s1 EXCEPT !.blocks = r2.rows] ELSE s1
        s3 == IF HasBlocks(o) /\ o.fault # "index_text_blocks"
              THEN [s2 EXCEPT !.index = @ \cup {f}] ELSE s2
        s4 == [s3 EXCEPT !.windows = @ \cup {f}, !.processed = @ + 1]
    IN  IF r1.error # "none" \/ o.fault = "insert_frame" THEN PairFailed(s0)
        ELSE IF HasBlocks(o) /\ (r2.error # "none" \/ o.fault = "insert_text_blocks")
        THEN PairFailed(s1)
        ELSE IF o.fault = "update_window_tracking" THEN PairFailed(s3)
        ELSE s4

\* Where the pair loop goes after pair i of n raised: the handler is inside
\* the loop, so on to pair i + 1.
AfterPairFailure_Abort(i, n) == n + 1
AfterPairFailure(i, n) == i + 1

RECURSIVE StorePairs(_, _, _, _, _)
StorePairs(s, b, outs, open, i) ==
    IF i > Len(b) THEN s
    ELSE LET t == StorePair(s, b[i], outs[i], open)
             j == IF t.failed > s.failed THEN AfterPairFailure(i, Len(b))
                  ELSE i + 1
         IN  StorePairs(t, b, outs, open, j)

\* The head of the while loop (lines 93-109), run without suspension: leave
\* when not running and the queue is empty, sleep when it is empty, otherwise
\* pop up to batch_size entries and await process_batch, which suspends
\* unless no item of the batch reaches the rate gate or the provider.
TakeBatch_One(q) == SubSeq(q, 1, 1)
TakeBatch(q) == SubSeq(q, 1, Min(batch_size, Len(q)))
DropBatch(q) == SubSeq(q, Min(batch_size, Len(q)) + 1, Len(q))

OcrLoopExits(run, q) == ~run /\ Len(q) = 0

OcrLoopHead(g, q, st) ==
    IF OcrLoopExits(running, q)
    THEN /\ ocrPc' = [ocrPc EXCEPT ![g] = "done"]
         /\ batch' = [batch EXCEPT ![g] = <<>>]
         /\ stats' = st
         /\ ready' = Rest(Ocr(g)) \o Waiters("await_ocr", g)
         /\ cur' = None
         /\ UNCHANGED <<ocr_queue, dispatched>>
    ELSE IF Len(q) = 0
    THEN /\ ocrPc' = [ocrPc EXCEPT ![g] = "sleep"]
         /\ batch' = [batch EXCEPT ![g] = <<>>]
         /\ stats' = st
         /\ ready' = Rest(Ocr(g))
         /\ cur' = None
         /\ UNCHANGED <<ocr_queue, dispatched>>
    ELSE /\ batch' = [batch EXCEPT ![g] = TakeBatch(q)]
         /\ ocr_queue' = DropBatch(q)
         /\ stats' = [st EXCEPT !.ocr_queue_size = Len(DropBatch(q))]
         /\ dispatched' = [f \in FrameIds |->
                IF \E i \in 1..Len(TakeBatch(q)) : TakeBatch(q)[i] = f
                THEN dispatched[f] + 1 ELSE dispatched[f]]
         /\ ready' = Rest(Ocr(g))
         /\ \E suspends \in BOOLEAN :
                /\ ocrPc' = [ocrPc EXCEPT ![g] = IF suspends THEN "ocr" ELSE "results"]
                /\ cur' = IF suspends THEN None ELSE Ocr(g)

\* The sleep of a processing task is over.
OcrWake(g) ==
    /\ cur = None
    /\ ocrPc[g] = "sleep"
    /\ ocrPc' = [ocrPc EXCEPT ![g] = "ready"]
    /\ ready' = Append(ready, Ocr(g))
    /\ UNCHANGED <<running, ocr_queue, stats, capture_task, ocr_task, capPc,
                   batch, stopPc, stopWait, cur, conn, db_frames, db_blocks,
                   vec_index, window_tracking, launched, captured, dispatched,
                   attempted, last_batch, batch_failed, nonPipeVars>>

\* The requests of process_batch are answered.
OcrIoDone(g) ==
    /\ cur = None
    /\ ocrPc[g] = "ocr"
    /\ ocrPc' = [ocrPc EXCEPT ![g] = "results"]
    /\ ready' = Append(ready, Ocr(g))
    /\ UNCHANGED <<running, ocr_queue, stats, capture_task, ocr_task, capPc,
                   batch, stopPc, stopWait, cur, conn, db_frames, db_blocks,
                   vec_index, window_tracking, launched, captured, dispatched,
                   attempted, last_batch, batch_failed, nonPipeVars>>

\* The task's first run, or its run after asyncio.sleep(0.5).
OcrRun(g) ==
    /\ Turn(Ocr(g))
    /\ ocrPc[g] = "ready"
    /\ OcrLoopHead(g, ocr_queue, stats)
    /\ UNCHANGED <<running, capture_task, ocr_task, capPc, stopPc, stopWait,
                   conn, db_frames, db_blocks, vec_index, window_tracking,
                   launched, captured, attempted, last_batch, batch_failed, nonPipeVars>>

\* process_batch returned (it returns one list per entry and does not raise):
\* the pair loop runs over the whole batch, then the loop head runs again.
OcrResultsOf(g, Outcomes) ==
    /\ Turn(Ocr(g))
    /\ ocrPc[g] = "results"
    /\ last_batch' = batch[g]
    /\ \E outs \in [1..Len(batch[g]) -> Outcomes] :
         LET s == StorePairs(Store, batch[g], outs, conn, 1)
         IN  /\ db_frames' = s.frames
             /\ db_blocks' = s.blocks
             /\ vec_index' = s.index
             /\ window_tracking' = s.windows
             /\ attempted' = s.attempted
             /\ OcrLoopHead(g, ocr_queue,
                    [stats EXCEPT !.frames_processed = s.processed,
                                  !.frames_failed = s.failed])
    /\ UNCHANGED <<running, capture_task, ocr_task, capPc, stopPc, stopWait,
                   conn, launched, captured, batch_failed, nonPipeVars>>

\* process_batch raised: the outer handler (lines 161-163) counts the whole
\* batch failed, and the loop head runs again.
OcrBatchRaised(g) ==
    /\ Turn(Ocr(g))
    /\ ocrPc[g] = "results"
    /\ last_batch' = batch[g]
    /\ batch_failed' = batch_failed \cup {batch[g][i] : i \in 1..Len(batch[g])}
    /\ OcrLoopHead(g, ocr_queue,
            [stats EXCEPT !.frames_failed = @ + Len(batch[g])])
    /\ UNCHANGED <<running, capture_task, ocr_task, capPc, stopPc, stopWait,
                   conn, db_frames, db_blocks, vec_index, window_tracking,
                   launched, captured, attempted, nonPipeVars>>

\* The pair outcomes enumerated where start() and stop() calls interleave
\* freely: text found, and insert_frame either succeeds or raises.
RunOutcomes == {o \in PairOutcomes : o.blocks /\ o.fault \in {"none", "insert_frame"}}

OcrResults(g) == OcrResultsOf(g, RunOutcomes)

\* Every pair outcome.
OcrResultsAny(g) == OcrResultsOf(g, PairOutcomes)

\* ----------------------------------------------------------------------- stop
\* if not self.running: return
StopReturnsEarly_Never == FALSE
StopReturnsEarly == ~running

\* `await task` on a finished task does not suspend.
TaskDone(pc) == pc \in {"done", "raised"}

\* From `if self.ocr_task: await self.ocr_task` on: suspend on a live task,
\* else close the database and return to the caller.
StopAwaitOcr(c) ==
    IF ocr_task # 0 /\ ~TaskDone(ocrPc[ocr_task])
    THEN /\ stopPc' = [stopPc EXCEPT ![c] = "await_ocr"]
         /\ stopWait' = [stopWait EXCEPT ![c] = ocr_task]
         /\ cur' = None
         /\ UNCHANGED conn
    ELSE /\ stopPc' = [stopPc EXCEPT ![c] = "returned"]
         /\ stopWait' = [stopWait EXCEPT ![c] = 0]
         /\ cur' = App
         /\ conn' = FALSE

\* From `if self.capture_task: await self.capture_task` on. Awaiting a task
\* that ended with an exception raises it in stop().
StopAwaitCapture(c) ==
    IF capture_task # 0 /\ capPc[capture_task] = "raised"
    THEN /\ stopPc' = [stopPc EXCEPT ![c] = "raised"]
         /\ stopWait' = [stopWait EXCEPT ![c] = 0]
         /\ cur' = App
         /\ UNCHANGED conn
    ELSE IF capture_task # 0 /\ ~TaskDone(capPc[capture_task])
    THEN /\ stopPc' = [stopPc EXCEPT ![c] = "await_capture"]
         /\ stopWait' = [stopWait EXCEPT ![c] = capture_task]
         /\ cur' = None
         /\ UNCHANGED conn
    ELSE StopAwaitOcr(c)

\* A call of stop() by the application coroutine, up to its first suspension.
StopBegin(c) ==
    /\ Turn(App)
    /\ stopPc[c] = "idle"
    /\ \A d \in StopCalls : d < c => stopPc[d] # "idle"
    /\ ready' = Rest(App)
    /\ IF StopReturnsEarly
       THEN /\ stopPc' = [stopPc EXCEPT ![c] = "noop"]
            /\ cur' = App
            /\ UNCHANGED <<running, stopWait, conn>>
       ELSE /\ running' = FALSE
            /\ StopAwaitCapture(c)
    /\ UNCHANGED <<ocr_queue, stats, capture_task, ocr_task, capPc, ocrPc,
                   batch, db_frames, db_blocks, vec_index, window_tracking,
                   launched, captured, dispatched, attempted, last_batch,
                   batch_failed, nonPipeVars>>

\* The awaited capture task has ended: stop() resumes.
StopResumeCapture(c) ==
    /\ Turn(Stop(c))
    /\ stopPc[c] = "await_capture"
    /\ ready' = Rest(Stop(c))
    /\ IF capPc[stopWait[c]] = "raised"
       THEN /\ stopPc' = [stopPc EXCEPT ![c] = "raised"]
            /\ stopWait' = [stopWait EXCEPT ![c] = 0]
            /\ cur' = App
            /\ UNCHANGED conn
       ELSE StopAwaitOcr(c)
    /\ UNCHANGED <<running, ocr_queue, stats, capture_task, ocr_task, capPc,
                   ocrPc, batch, db_frames, db_blocks, vec_index,
                   window_tracking, launched, captured, dispatched, attempted,
                   last_batch, batch_failed, nonPipeVars>>

\* The awaited processing task has ended: stop() closes the database and
\* returns to its caller.
StopResumeOcr(c) ==
    /\ Turn(Stop(c))
    /\ stopPc[c] = "await_ocr"
    /\ ready' = Rest(Stop(c))
    /\ stopPc' = [stopPc EXCEPT ![c] = "returned"]
    /\ stopWait' = [stopWait EXCEPT ![c] = 0]
    /\ cur' = App
    /\ conn' = FALSE
    /\ UNCHANGED <<running, ocr_queue, stats, capture_task, ocr_task, capPc,
                   ocrPc, batch, db_frames, db_blocks, vec_index,
                   window_tracking, launched, captured, dispatched, attempted,
                   last_batch, batch_failed, nonPipeVars>>

\* ------------------------------------------------------- OpenAIOCR, AppleVisionOCR
MaxCallers == 2
MaxBatch == 2
max_retries == 3
rate_limit_rpm == 30

Callers == 1..MaxCallers
ImageIds == 1..MaxBatch

\* 60.0 / rate_limit_rpm, in the seconds the model counts time in.
min_request_interval == 60 \div rate_limit_rpm

\* The argument lists of process_batch: (path, frame id) pairs of distinct frames.
Batches ==
    {b \in UNION {[1..n -> ImageIds] : n \in 0..MaxBatch} :
        \A i, j \in 1..Len(b) : i # j => b[i] # b[j]}

\* The text block extract_text builds for a frame.
TextBlock(f) == [frame_id |-> f]

InitOCR ==
    /\ image_paths = [k \in Callers |-> <<>>]
    /\ obPc = [k \in Callers |-> "idle"]
    /\ idx = [k \in Callers |-> 0]
    /\ attempt = [k \in Callers |-> 0]
    /\ timer = [k \in Callers |-> 0]
    /\ results = [k \in Callers |-> <<>>]
    /\ lock_holder = 0
    /\ lock_waiters = <<>>
    /\ since_last = min_request_interval
    /\ since_exit = 0
    /\ gate_used = FALSE
    /\ calls = [k \in Callers |-> 0]
    /\ gates = [k \in Callers |-> 0]
    /\ raised = [k \in Callers |-> {}]

\* except Exception in process_batch: an empty list takes the item's place.
AfterItemRaised_Skip(res) == res
AfterItemRaised(res) == Append(res, <<>>)

\* extract_text is over for the current item of caller k, with result `res`
\* or by raising; process_batch appends and goes on to the next item, or
\* returns the list after the last one.
ItemDone(k, res, raises) ==
    /\ results' = [results EXCEPT ![k] =
            IF raises THEN AfterItemRaised(@) ELSE Append(@, res)]
    /\ raised' = [raised EXCEPT ![k] = IF raises THEN @ \cup {idx[k]} ELSE @]
    /\ idx' = [idx EXCEPT ![k] = @ + 1]
    /\ obPc' = [obPc EXCEPT ![k] =
            IF idx[k] >= Len(image_paths[k]) THEN "returned" ELSE "item"]

\* A call of process_batch. Its for loop and the retry loop of extract_text
\* are stepped one iteration head at a time, which allows every interleaving
\* of the callers that the suspension points allow.
ProcessBatch(k, paths) ==
    /\ obPc[k] = "idle"
    /\ image_paths' = [image_paths EXCEPT ![k] = paths]
    /\ results' = [results EXCEPT ![k] = <<>>]
    /\ raised' = [raised EXCEPT ![k] = {}]
    /\ idx' = [idx EXCEPT ![k] = 1]
    /\ obPc' = [obPc EXCEPT ![k] = IF paths = <<>> THEN "returned" ELSE "item"]
    /\ UNCHANGED <<impl, attempt, timer, lock_holder, lock_waiters, since_last,
                   since_exit, gate_used, calls, gates, nonOcrVars>>

\* What extract_text finds at the path: image_path.exists() raises (it is
\* outside every try block), the file is absent, it cannot be read and
\* encoded, or it is there.
FileStates == {"exists_raises", "missing", "unreadable", "ok"}

\* extract_text up to the retry loop (OpenAI) or the executor call (Apple).
\* AppleVisionOCR reads the file inside _perform_ocr_sync, so an unreadable
\* file shows there.
ExtractText(k) ==
    /\ obPc[k] = "item"
    /\ \E file \in FileStates :
        IF file = "exists_raises"
        THEN /\ ItemDone(k, <<>>, TRUE)
             /\ UNCHANGED <<attempt, calls, gates>>
        ELSE IF file = "missing" \/ (file = "unreadable" /\ impl = "openai")
        THEN /\ ItemDone(k, <<>>, FALSE)
             /\ UNCHANGED <<attempt, calls, gates>>
        ELSE /\ obPc' = [obPc EXCEPT ![k] =
                    IF impl = "openai" THEN "attempt" ELSE "executor"]
             /\ attempt' = [attempt EXCEPT ![k] = 0]
             /\ calls' = [calls EXCEPT ![k] = 0]
             /\ gates' = [gates EXCEPT ![k] = 0]
             /\ UNCHANGED <<results, raised, idx>>
    /\ UNCHANGED <<impl, image_paths, timer, lock_holder, lock_waiters,
                   since_last, since_exit, gate_used, nonOcrVars>>

\* AppleVisionOCR: run_in_executor returned the text lines, returned none
\* (also when _perform_ocr_sync caught an error), or raised.
ExecutorOutcomes == {"text", "no_text", "error"}

ExecutorDone(k) ==
    /\ obPc[k] = "executor"
    /\ \E out \in ExecutorOutcomes :
        ItemDone(k, IF out = "text" THEN <<TextBlock(image_paths[k][idx[k]])>> ELSE <<>>,
                 FALSE)
    /\ UNCHANGED <<impl, image_paths, attempt, timer, lock_holder, lock_waiters,
                   since_last, since_exit, gate_used, calls, gates, nonOcrVars>>

\* asyncio.Lock.acquire takes the lock at once only if it is free and nobody
\* is queued for it.
LockFree_Always(holder, waiters) == TRUE
LockFree(holder, waiters) == holder = 0 /\ waiters = <<>>

\* for attempt in range(self.max_retries)
InRange(a) == a < max_retries

\* `await self._rate_limit()` is the first statement of every attempt.
GateRequired_FirstOnly(a) == a = 0
GateRequired(a) == TRUE

\* The end of _rate_limit: last_request_time = time.time(), the lock is
\* released (to the first waiter, if any), and the request is sent.
LeaveGate(k) ==
    /\ since_last' = 0
    /\ since_exit' = 0
    /\ gate_used' = TRUE
    /\ gates' = [gates EXCEPT ![k] = @ + 1]
    /\ calls' = [calls EXCEPT ![k] = @ + 1]
    /\ obPc' = [obPc EXCEPT ![k] = "request"]
    /\ lock_holder' = IF lock_waiters = <<>> THEN 0 ELSE Head(lock_waiters)
    /\ lock_waiters' = IF lock_waiters = <<>> THEN <<>> ELSE Tail(lock_waiters)
    /\ UNCHANGED timer

\* Inside the lock: sleep for the rest of the interval, holding the lock, or
\* leave at once.
InsideGate(k) ==
    IF since_last < min_request_interval
    THEN /\ obPc' = [obPc EXCEPT ![k] = "gate_sleep"]
         /\ timer' = [timer EXCEPT ![k] = min_request_interval - since_last]
         /\ lock_holder' = k
         /\ UNCHANGED <<lock_waiters, since_last, since_exit, gate_used, gates, calls>>
    ELSE LeaveGate(k)

\* The head of the retry loop: the loop is over (return []), or the caller
\* goes for the gate and queues on the lock when it is taken.
Attempt(k) ==
    /\ obPc[k] = "attempt"
    /\ IF ~InRange(attempt[k])
       THEN /\ ItemDone(k, <<>>, FALSE)
            /\ UNCHANGED <<timer, lock_holder, lock_waiters, since_last,
                           since_exit, gate_used, calls, gates>>
       ELSE IF ~GateRequired(attempt[k])
       THEN /\ calls' = [calls EXCEPT ![k] = @ + 1]
            /\ obPc' = [obPc EXCEPT ![k] = "request"]
            /\ UNCHANGED <<timer, lock_holder, lock_waiters, since_last,
                           since_exit, gate_used, gates, results, raised, idx>>
       ELSE IF LockFree(lock_holder, lock_waiters)
       THEN /\ InsideGate(k)
            /\ UNCHANGED <<results, raised, idx>>
       ELSE /\ obPc' = [obPc EXCEPT ![k] = "lock_wait"]
            /\ lock_waiters' = Append(lock_waiters, k)
            /\ UNCHANGED <<timer, lock_holder, since_last, since_exit,
                           gate_used, calls, gates, results, raised, idx>>
    /\ UNCHANGED <<impl, image_paths, attempt, nonOcrVars>>

\* The lock was released to this waiter: it resumes inside the gate.
LockGranted(k) ==
    /\ obPc[k] = "lock_wait"
    /\ lock_holder = k
    /\ InsideGate(k)
    /\ UNCHANGED <<impl, image_paths, idx, attempt, results, raised, nonOcrVars>>

\* The sleep inside the gate is over.
GateWake(k) ==
    /\ obPc[k] = "gate_sleep"
    /\ timer[k] = 0
    /\ LeaveGate(k)
    /\ UNCHANGED <<impl, image_paths, idx, attempt, results, raised, nonOcrVars>>

\* What an attempt ends with: a response, RateLimitError, OpenAIError, or any
\* other exception (also one raised while reading the response).
Responses == {"ok", "rate_limit", "api_error", "unexpected"}

\* if attempt < self.max_retries - 1: sleep and retry, else return [].
RetryLeft(a) == a < max_retries - 1

\* Exponential backoff for RateLimitError, one second for the others.
BackoffTime(r, a) == IF r = "rate_limit" THEN 2 ^ a ELSE 1

Response(k) ==
    /\ obPc[k] = "request"
    /\ \E r \in Responses :
        IF r = "ok"
        THEN /\ ItemDone(k, <<TextBlock(image_paths[k][idx[k]])>>, FALSE)
             /\ UNCHANGED timer
        ELSE IF RetryLeft(attempt[k])
        THEN /\ obPc' = [obPc EXCEPT ![k] = "backoff"]
             /\ timer' = [timer EXCEPT ![k] = BackoffTime(r, attempt[k])]
             /\ UNCHANGED <<results, raised, idx>>
        ELSE /\ ItemDone(k, <<>>, FALSE)
             /\ UNCHANGED timer
    /\ UNCHANGED <<impl, image_paths, attempt, lock_holder, lock_waiters,
                   since_last, since_exit, gate_used, calls, gates, nonOcrVars>>

\* The backoff sleep is over: the for loop takes the next attempt.
BackoffWake(k) ==
    /\ obPc[k] = "backoff"
    /\ timer[k] = 0
    /\ attempt' = [attempt EXCEPT ![k] = @ + 1]
    /\ obPc' = [obPc EXCEPT ![k] = "attempt"]
    /\ UNCHANGED <<impl, image_paths, idx, timer, results, lock_holder,
                   lock_waiters, since_last, since_exit, gate_used, calls,
                   gates, raised, nonOcrVars>>

\* One second passes.
Tick ==
    /\ \/ since_last < min_request_interval
       \/ since_exit < min_request_interval
       \/ \E k \in Callers : timer[k] > 0
    /\ since_last' = Min(since_last + 1, min_request_interval)
    /\ since_exit' = Min(since_exit + 1, min_request_interval)
    /\ timer' = [k \in Callers |-> IF timer[k] > 0 THEN timer[k] - 1 ELSE 0]
    /\ UNCHANGED <<impl, image_paths, obPc, idx, attempt, results, lock_holder,
                   lock_waiters, gate_used, calls, gates, raised, nonOcrVars>>

\* ---------------------------------------------------------------- FrameDiffer
MaxDifferCalls == 4
similarity_threshold == 95
max_difference == 256

\* 256-bit average hashes, each written as the number of its leading one bits
\* (the other bits zero), so that the Hamming distance of two of them is the
\* difference of the numbers.
Hashes == {0, 5, 12, 13, 30, 256}

\* current_hash - self.last_hash
Difference(a, b) == IF a >= b THEN a - b ELSE b - a

\* similarity >= self.similarity_threshold, for similarity = 1 - d / 256 and
\* the threshold given in hundredths.
Similar_Never(d) == FALSE
Similar(d) == (max_difference - d) * 100 >= similarity_threshold * max_difference

\* The argument of should_capture_frame: <<h>> is an image with hash h, <<>>
\* a file that Image.open or average_hash fails on.
Images == {<<>>} \cup {<<h>> : h \in Hashes}

InitDiffer ==
    /\ last_hash = <<>>
    /\ frames_captured = 0
    /\ frames_skipped = 0
    /\ image = <<>>
    /\ kept = TRUE

\* self.last_hash = current_hash; self.frames_captured += 1
Keep_CountOnly(img) ==
    /\ UNCHANGED last_hash
    /\ frames_captured' = frames_captured + 1
Keep(img) ==
    /\ last_hash' = img
    /\ frames_captured' = frames_captured + 1

\* self.frames_skipped += 1, the stored hash stays.
Skip_Rebase(img) ==
    /\ frames_skipped' = frames_skipped + 1
    /\ last_hash' = img
    /\ UNCHANGED frames_captured
Skip(img) ==
    /\ frames_skipped' = frames_skipped + 1
    /\ UNCHANGED <<last_hash, frames_captured>>

\* except Exception: return True
OnError_Discard == FALSE
OnError == TRUE

\* What should_capture_frame does to the differ, whoever calls it.
DifferDecides(img) ==
    /\ image' = img
    /\ IF img = <<>>
       THEN /\ kept' = OnError
            /\ UNCHANGED <<last_hash, frames_captured, frames_skipped>>
       ELSE IF last_hash = <<>>
       THEN /\ Keep(img)
            /\ kept' = TRUE
            /\ UNCHANGED frames_skipped
       ELSE IF Similar(Difference(img[1], last_hash[1]))
       THEN /\ Skip(img)
            /\ kept' = FALSE
       ELSE /\ Keep(img)
            /\ kept' = TRUE
            /\ UNCHANGED frames_skipped

should_capture_frame(img) ==
    /\ frames_captured + frames_skipped < MaxDifferCalls
    /\ DifferDecides(img)
    /\ UNCHANGED nonDifferVars

\* --------------------------------------------------------------------- Database
TextBlockRows == [block_id : FrameIds, frame_id : FrameIds]

\* A call of insert_frame from outside the pair loop.
InsertFrame(f) ==
    /\ db_frames' = insert_frame(db_frames, f, conn).rows
    /\ db_error' = insert_frame(db_frames, f, conn).error
    /\ UNCHANGED <<running, ocr_queue, stats, capture_task, ocr_task, capPc,
                   ocrPc, batch, stopPc, stopWait, ready, cur, conn, db_blocks,
                   vec_index, window_tracking, launched, captured, dispatched,
                   attempted, last_batch, batch_failed, ocrVars, differVars,
                   monitorVars, serviceVars, searchVars, recordVars, startupVars,
      cadenceVars, loopVars, indexVars, configVars, blockVars>>

\* A call of insert_text_blocks.
InsertTextBlocks(bs) ==
    /\ db_blocks' = insert_text_blocks(db_blocks, bs, conn).rows
    /\ db_error' = insert_text_blocks(db_blocks, bs, conn).error
    /\ UNCHANGED <<running, ocr_queue, stats, capture_task, ocr_task, capPc,
                   ocrPc, batch, stopPc, stopWait, ready, cur, conn, db_frames,
                   vec_index, window_tracking, launched, captured, dispatched,
                   attempted, last_batch, batch_failed, ocrVars, differVars,
                   monitorVars, serviceVars, searchVars, recordVars, startupVars,
      cadenceVars, loopVars, indexVars, configVars, blockVars>>

\* Database.close
CloseDatabase ==
    /\ conn' = FALSE
    /\ db_error' = "none"
    /\ UNCHANGED <<running, ocr_queue, stats, capture_task, ocr_task, capPc,
                   ocrPc, batch, stopPc, stopWait, ready, cur, db_frames,
                   db_blocks, vec_index, window_tracking, launched, captured,
                   dispatched, attempted, last_batch, batch_failed, ocrVars,
                   differVars, monitorVars, serviceVars, searchVars, recordVars, startupVars,
      cadenceVars, loopVars, indexVars, configVars, blockVars>>

\* What a call on the stores from outside the pipeline leaves alone.
nonStoreVars ==
    <<running, ocr_queue, stats, capture_task, ocr_task, capPc, ocrPc, batch,
      stopPc, stopWait, ready, cur, window_tracking, launched, captured,
      dispatched, attempted, last_batch, batch_failed, ocrVars, differVars,
      monitorVars, serviceVars, searchVars, recordVars, startupVars,
      cadenceVars, loopVars, indexVars, configVars, blockVars>>

\* text_blocks.frame_id references frames(frame_id) ON DELETE CASCADE, and
\* the connection runs with foreign_keys = ON: the rows that are left once
\* the frames in `gone` are deleted.
CascadeDelete(rows, gone) == {b \in rows : b.frame_id \notin gone}

\* Database.cleanup_old_frames, where `old` are the frames whose timestamp is
\* before the cutoff: one DELETE on frames and a commit.
cleanup_old_frames(old) ==
    /\ IF conn
       THEN /\ db_frames' = db_frames \ old
            /\ db_blocks' = CascadeDelete(db_blocks, old)
            /\ db_error' = "none"
       ELSE /\ db_error' = "AttributeError"
            /\ UNCHANGED <<db_frames, db_blocks>>
    /\ UNCHANGED <<conn, vec_index, nonStoreVars>>

\* EmbeddingService.index_text_blocks for the blocks stored for frame f.
IndexTextBlocks(f) ==
    /\ \E b \in db_blocks : b.frame_id = f
    /\ vec_index' = vec_index \cup {f}
    /\ UNCHANGED <<conn, db_frames, db_blocks, db_error, nonStoreVars>>

\* EmbeddingService.delete_frame_blocks
DeleteFrameBlocks(f) ==
    /\ vec_index' = vec_index \ {f}
    /\ UNCHANGED <<conn, db_frames, db_blocks, db_error, nonStoreVars>>

\* ------------------------------------------------------------ ActivityMonitor
\* The configurations and probe results fed to the monitor. Rates are in
\* tenths of a frame per second: 10 is 1.0 fps, 2 is 0.2 fps.
Thresholds == {0, 30, 45, 60}
ActiveRates == {10, 20}
IdleRates == {2, 5}
IdleSeconds == {0, 29, 30, 45, 60, 90}

\* What the Quartz call does: <<s>> returns s seconds, <<>> raises.
Probes == {<<>>} \cup {<<s>> : s \in IdleSeconds}

\* ActivityMonitor.__init__ with the given arguments.
InitMonitor(t, fa, fi) ==
    /\ idle_threshold = t
    /\ active_fps = fa
    /\ idle_fps = fi
    /\ seconds_idle = 0
    /\ probe_failed = FALSE
    /\ adaptive_fps = 0

\* get_seconds_since_last_input: the handler returns 0.0.
get_seconds_since_last_input(probe) == IF probe = <<>> THEN 0 ELSE probe[1]

\* is_user_active
is_user_active_Inclusive(seconds) == seconds <= idle_threshold
is_user_active(seconds) == seconds < idle_threshold

get_adaptive_fps(probe) ==
    /\ seconds_idle' = get_seconds_since_last_input(probe)
    /\ probe_failed' = (probe = <<>>)
    /\ adaptive_fps' = IF is_user_active(get_seconds_since_last_input(probe))
                       THEN active_fps ELSE idle_fps
    /\ UNCHANGED <<idle_threshold, active_fps, idle_fps, nonMonitorVars>>

\* -------------------------------------------------------------- CaptureService
\* Sizes are in GB: an image file and its sidecar occupy FileSize each.
MaxCaptures == 3
min_free_space_gb == 10
max_disk_usage_gb == 2
FileSize == 1
FreeSpace == {5, 10, 20}

\* CaptureService.__init__: the usage is computed once, from the directory.
InitService(free, used) ==
    /\ free_gb = free
    /\ dir_usage = used
    /\ frames_dir_usage = used
    /\ screenshots = 0
    /\ svc_frames_captured = 0
    /\ svc_frames_skipped = 0
    /\ capture_calls = 0
    /\ outcome = "none"

\* What one call of capture_frame meets: whether psutil.disk_usage answers,
\* which step fails (if the call gets that far), and the image the screen shows.
CaptureFaults == {"none", "mkdir", "exit_code", "timeout", "transcode", "unlink",
                  "stat", "window_info", "sidecar"}
CaptureInputs == [probe : {"ok", "raises"}, fault : CaptureFaults, img : Images]

\* _check_disk_space: the handler of the probe answers True.
ProbeRaised == TRUE

_check_disk_space(probe) ==
    IF probe = "raises" THEN ProbeRaised
    ELSE IF free_gb < min_free_space_gb THEN FALSE
    ELSE IF frames_dir_usage > max_disk_usage_gb THEN FALSE
    ELSE TRUE

\* The differ's answer to img in the current state.
DifferKeeps_Always(img) == TRUE
DifferKeeps(img) ==
    IF img = <<>> THEN OnError
    ELSE IF last_hash = <<>> THEN TRUE
    ELSE ~Similar(Difference(img[1], last_hash[1]))

\* capture_frame ends with `result`; the directory grows by `files`, the
\* accounted usage by `accounted`.
CaptureEnds(result, files, accounted) ==
    /\ outcome' = result
    /\ dir_usage' = dir_usage + files
    /\ frames_dir_usage' = frames_dir_usage + accounted
    /\ svc_frames_captured' = svc_frames_captured + (IF result = "frame" THEN 1 ELSE 0)
    /\ svc_frames_skipped' = svc_frames_skipped + (IF result = "skipped" THEN 1 ELSE 0)

capture_frame(in) ==
    /\ capture_calls < MaxCaptures
    /\ frames_captured + frames_skipped < MaxDifferCalls
    /\ capture_calls' = capture_calls + 1
    /\ IF ~_check_disk_space(in.probe)
       THEN /\ CaptureEnds("paused", 0, 0)
            /\ UNCHANGED <<screenshots, differVars>>
       ELSE IF in.fault = "mkdir"
       THEN \* _get_frame_path runs before the try block
            /\ CaptureEnds("raised", 0, 0)
            /\ UNCHANGED <<screenshots, differVars>>
       ELSE /\ screenshots' = screenshots + 1
            /\ IF in.fault \in {"exit_code", "timeout"}
               THEN /\ CaptureEnds("failed", 0, 0)
                    /\ UNCHANGED differVars
               ELSE \* a failed conversion falls back to the PNG
                    /\ DifferDecides(in.img)
                    /\ IF ~DifferKeeps(in.img)
                       THEN IF in.fault = "unlink"
                            THEN CaptureEnds("failed", FileSize, 0)
                            ELSE CaptureEnds("skipped", 0, 0)
                       ELSE IF in.fault = "stat"
                       THEN CaptureEnds("failed", FileSize, 0)
                       ELSE IF in.fault \in {"window_info", "sidecar"}
                       THEN CaptureEnds("failed", FileSize, FileSize)
                       ELSE CaptureEnds("frame", 2 * FileSize, 2 * FileSize)
    /\ UNCHANGED <<free_gb, nonServiceVars>>

\* The disk fills up or is freed by something else.
DiskSpaceChanges ==
    /\ \E free \in FreeSpace \ {free_gb} : free_gb' = free
    /\ UNCHANGED <<dir_usage, frames_dir_usage, screenshots, svc_frames_captured,
                   svc_frames_skipped, capture_calls, outcome, differVars,
                   nonServiceVars>>

\* Frames are removed from the directory: converted days with
\* delete_frames_after_conversion, or a reset. The service is not told.
RemoveFrames ==
    /\ dir_usage > 0
    /\ \E left \in 0..(dir_usage - 1) : dir_usage' = left
    /\ UNCHANGED <<free_gb, frames_dir_usage, screenshots, svc_frames_captured,
                   svc_frames_skipped, capture_calls, outcome, differVars,
                   nonServiceVars>>

\* --------------------------------------------------------------------- search
Surfaces == {"api", "cli", "ui"}
RerankScores == {0, 5, 10}

InitSearch ==
    /\ surface = "none"
    /\ candidates = <<>>
    /\ rerank = FALSE
    /\ reranker = "none"
    /\ matches = <<>>
    /\ pos = 0
    /\ phase = "idle"
    /\ frame_found = FALSE
    /\ search_results = <<>>
    /\ search_error = FALSE

\* What collection.query can return: indexed blocks, each once, in the
\* distance order the query gives them (limit and app filter choose which).
Candidates ==
    {<<>>} \cup {<<f>> : f \in vec_index}
           \cup {p \in vec_index \X vec_index : p[1] # p[2]}

\* list.sort(key=rerank_score, reverse=True): stable, highest score first.
RECURSIVE InsertByScore(_, _, _)
InsertByScore(sorted, m, scores) ==
    IF sorted = <<>> THEN <<m>>
    ELSE IF scores[Head(sorted)] >= scores[m]
    THEN <<Head(sorted)>> \o InsertByScore(Tail(sorted), m, scores)
    ELSE <<m>> \o sorted

RECURSIVE SortByScore(_, _)
SortByScore(ms, scores) ==
    IF ms = <<>> THEN <<>>
    ELSE InsertByScore(SortByScore(SubSeq(ms, 1, Len(ms) - 1), scores),
                       ms[Len(ms)], scores)

\* except Exception as rerank_err: a warning, and the matches as they were.
AfterRerankError_Empty(ms) == <<>>
AfterRerankError(ms) == ms

\* EmbeddingService.search from the formatted matches on.
search(cands, rr, rk, scores) ==
    IF rr /\ rk # "none" /\ cands # <<>>
    THEN IF rk = "raises" THEN AfterRerankError(cands)
         ELSE SortByScore(cands, scores)
    ELSE cands

\* A surface runs a semantic search: the CLI does not pass rerank.
Search(s, cands, rr, rk, scores) ==
    /\ phase = "idle"
    /\ s = "cli" => ~rr
    /\ surface' = s
    /\ candidates' = cands
    /\ rerank' = rr
    /\ reranker' = rk
    /\ matches' = search(cands, rr, rk, scores)
    /\ search_results' = <<>>
    /\ search_error' = FALSE
    /\ frame_found' = FALSE
    /\ pos' = IF search(cands, rr, rk, scores) = <<>> THEN 0 ELSE 1
    /\ phase' = IF search(cands, rr, rk, scores) = <<>> THEN "idle" ELSE "frame"
    /\ UNCHANGED nonSearchVars

\* db.get_frame(match["frame_id"])
GetFrame ==
    /\ phase = "frame"
    /\ frame_found' = (matches[pos] \in db_frames)
    /\ phase' = "block"
    /\ UNCHANGED <<surface, candidates, rerank, reranker, matches, pos,
                   search_results, search_error, nonSearchVars>>

\* Whether the loop body ends in `continue`: the API replaces a missing
\* frame by {} and goes on, the CLI and the UI skip the match.
SkipsMatch_Never(s, frame, block) == FALSE
SkipsMatch(s, frame, block) == IF s = "api" THEN ~block ELSE ~frame \/ ~block

\* db.get_text_block(match["block_id"]) and the rest of the loop body.
GetTextBlock ==
    /\ phase = "block"
    /\ search_results' =
           IF SkipsMatch(surface, frame_found, BlockOf(matches[pos]) \in db_blocks)
           THEN search_results
           ELSE Append(search_results, matches[pos])
    /\ pos' = IF pos = Len(matches) THEN 0 ELSE pos + 1
    /\ phase' = IF pos = Len(matches) THEN "idle" ELSE "frame"
    /\ UNCHANGED <<surface, candidates, rerank, reranker, matches, frame_found,
                   search_error, nonSearchVars>>

\* The pair loop body for one captured frame, the only writer of the stores.
PersistFrame(f, o) ==
    LET s == StorePair(Store, f, o, conn)
    IN  /\ f \notin attempted
        /\ db_frames' = s.frames
        /\ db_blocks' = s.blocks
        /\ vec_index' = s.index
        /\ window_tracking' = s.windows
        /\ attempted' = s.attempted
        /\ stats' = [stats EXCEPT !.frames_processed = s.processed,
                                  !.frames_failed = s.failed]
        /\ UNCHANGED <<running, ocr_queue, capture_task, ocr_task, capPc, ocrPc,
                       batch, stopPc, stopWait, ready, cur, conn, launched,
                       captured, dispatched, last_batch, batch_failed,
                       nonPipeVars>>

\* --------------------------------------------------------------- frame records
\* The columns insert_frame writes.
Columns == {"frame_id", "timestamp", "window_title", "app_bundle_id", "app_name",
            "file_path", "file_size_bytes", "screen_resolution"}

\* No row, no record.
NoRecord == [missing |-> "yes"]

\* The value bound to a ? placeholder for a key the record lacks.
Null == "NULL"

WindowTitles == {"Editor", "Terminal"}

\* A record with every column, as the tests build it.
FullRecord(f, w) ==
    [frame_id |-> f, timestamp |-> "1234567890", window_title |-> w,
     app_bundle_id |-> "com.test.app", app_name |-> "Test App",
     file_path |-> "2025/10/26/test.png", file_size_bytes |-> "1024000",
     screen_resolution |-> "1920x1080"]

\* The metadata capture_frame builds (lines 304-315): the columns and
\* iso_timestamp.
CaptureRecord(f, w) ==
    [frame_id |-> f, timestamp |-> "1234567890",
     iso_timestamp |-> "2009-02-13T23:31:30", window_title |-> w,
     app_bundle_id |-> "com.test.app", app_name |-> "Test App",
     file_path |-> "2025/10/26/test.png", file_size_bytes |-> "1024000",
     screen_resolution |-> "1920x1080"]

FrameRecords ==
    {FullRecord(f, w) : f \in FrameIds, w \in WindowTitles}
        \cup {CaptureRecord(f, w) : f \in FrameIds, w \in WindowTitles}

InitRecords ==
    /\ frame_rows = [f \in FrameIds |-> NoRecord]
    /\ frame_data = [f \in FrameIds |-> NoRecord]
    /\ fetched_id = 0
    /\ fetched = NoRecord

\* The tuple insert_frame binds to the INSERT: the eight columns of the record.
RowOf(rec) == [c \in Columns |-> IF c \in DOMAIN rec THEN rec[c] ELSE Null]

\* Database.insert_frame of a whole record.
InsertFrameRecord(rec) ==
    LET r == insert_frame(db_frames, rec.frame_id, conn)
    IN  /\ db_frames' = r.rows
        /\ db_error' = r.error
        /\ IF r.error = "none"
           THEN /\ frame_rows' = [frame_rows EXCEPT ![rec.frame_id] = RowOf(rec)]
                /\ frame_data' = [frame_data EXCEPT ![rec.frame_id] = rec]
           ELSE UNCHANGED <<frame_rows, frame_data>>
        /\ UNCHANGED <<fetched_id, fetched, conn, db_blocks, vec_index, running,
                       ocr_queue, stats, capture_task, ocr_task, capPc, ocrPc,
                       batch, stopPc, stopWait, ready, cur, window_tracking,
                       launched, captured, dispatched, attempted, last_batch,
                       batch_failed, nonRecordVars>>

\* Database.get_frame: SELECT * FROM frames WHERE frame_id = ?, as a dict.
get_frame(id) == IF id \in db_frames THEN frame_rows[id] ELSE NoRecord

FetchFrame(id) ==
    /\ conn
    /\ fetched_id' = id
    /\ fetched' = get_frame(id)
    /\ UNCHANGED <<frame_rows, frame_data, pipeVars, db_error, nonRecordVars>>

\* ------------------------------------------------------------------ construction
Providers == {"sbert", "openai", "other"}

\* The pipeline the other specifications start from: constructed from a
\* configuration with the key set and the default embedding provider.
InitConstructed ==
    /\ api_key = "present"
    /\ embeddings_enabled = TRUE
    /\ provider = "sbert"
    /\ backend_ok = TRUE
    /\ constructed = "yes"
    /\ construct_error = "none"

\* OpenAIOCR.__init__: if not api_key: raise ValueError
MissingKey_Ignored(key) == FALSE
MissingKey(key) == key = "missing"

\* EmbeddingService.__init__: what it raises, if anything. A disabled
\* service returns before it looks at the provider.
EmbeddingInitError(enabled, prov, ok, key) ==
    IF ~enabled THEN "none"
    ELSE IF prov = "sbert" THEN (IF ok THEN "none" ELSE "OSError")
    ELSE IF prov = "openai"
    THEN (IF ~ok \/ key = "missing" THEN "RuntimeError" ELSE "none")
    ELSE "ValueError"

\* ProcessingPipeline.__init__: CaptureService, OpenAIOCR, Database,
\* EmbeddingService, in this order; the first exception leaves it.
PipelineInitError ==
    IF MissingKey(api_key) THEN "ValueError"
    ELSE EmbeddingInitError(embeddings_enabled, provider, backend_ok, api_key)

\* pipeline = ProcessingPipeline(config) in the start command.
ConstructPipeline ==
    /\ constructed = "no"
    /\ construct_error' = PipelineInitError
    /\ constructed' = IF PipelineInitError = "none" THEN "yes" ELSE "raised"
    /\ UNCHANGED <<api_key, embeddings_enabled, provider, backend_ok, nonStartupVars>>

\* ---------------------------------------------------- who holds the thread
\* The two loops of a running pipeline, one step for each call that takes
\* time. A call that is awaited gives the thread up until its result is
\* there; a call that is not awaited keeps the thread until it returns.
MaxWaiting == 3

InitCadence ==
    /\ thread = "idle"
    /\ cap_at = "sleep"
    /\ proc_at = "sleep"
    /\ waiting = 0
    /\ in_batch = 0

\* The time of asyncio.sleep(sleep_time) in _capture_loop is over.
CaptureDue ==
    /\ cap_at = "sleep"
    /\ cap_at' = "due"
    /\ UNCHANGED <<thread, proc_at, waiting, in_batch, nonCadenceVars>>

\* The event loop resumes _capture_loop, which calls capture_frame:
\* subprocess.run(["screencapture", ...], timeout=5) is called on the thread.
CaptureStarts ==
    /\ cap_at = "due"
    /\ thread = "idle"
    /\ waiting < MaxWaiting
    /\ thread' = "capture"
    /\ cap_at' = "screencapture"
    /\ UNCHANGED <<proc_at, waiting, in_batch, nonCadenceVars>>

\* The end of an iteration of _capture_loop: the frame, if there is one, is
\* appended, and the loop sleeps if there is time left in the interval.
IterationEnds(queued, sleeps) ==
    /\ waiting' = IF queued THEN waiting + 1 ELSE waiting
    /\ ~sleeps => waiting' < MaxWaiting
    /\ thread' = IF sleeps THEN "idle" ELSE "capture"
    /\ cap_at' = IF sleeps THEN "sleep" ELSE "screencapture"

\* screencapture has returned; the frame is converted and compared with the
\* last one kept. A failed or skipped frame ends capture_frame with None.
Screencapture(result, sleeps) ==
    /\ thread = "capture"
    /\ cap_at = "screencapture"
    /\ IF result = "kept"
       THEN /\ cap_at' = "window_info"
            /\ UNCHANGED <<thread, waiting>>
       ELSE IterationEnds(FALSE, sleeps)
    /\ UNCHANGED <<proc_at, in_batch, nonCadenceVars>>

\* _get_active_window_info has returned, and capture_frame with it.
WindowInfo(sleeps) ==
    /\ thread = "capture"
    /\ cap_at = "window_info"
    /\ IterationEnds(TRUE, sleeps)
    /\ UNCHANGED <<proc_at, in_batch, nonCadenceVars>>

\* The head of the loop of _ocr_loop, the pipeline running: an empty queue
\* is slept on, anything else is taken as a batch and handed to
\* process_batch, which awaits the OCR request.
LoopHead(queued) ==
    /\ thread' = "idle"
    /\ IF queued = 0
       THEN /\ proc_at' = "sleep"
            /\ waiting' = queued
            /\ in_batch' = 0
       ELSE /\ proc_at' = "process_batch"
            /\ in_batch' = IF queued < batch_size THEN queued ELSE batch_size
            /\ waiting' = queued - in_batch'

\* The time of asyncio.sleep(0.5) in _ocr_loop is over.
ProcessingDue ==
    /\ proc_at = "sleep"
    /\ proc_at' = "due"
    /\ UNCHANGED <<thread, cap_at, waiting, in_batch, nonCadenceVars>>

\* The event loop resumes _ocr_loop after its sleep.
ProcessingStarts ==
    /\ proc_at = "due"
    /\ thread = "idle"
    /\ LoopHead(waiting)
    /\ UNCHANGED <<cap_at, nonCadenceVars>>

\* The OCR request is answered.
OcrAnswers ==
    /\ proc_at = "process_batch"
    /\ proc_at' = "answered"
    /\ UNCHANGED <<thread, cap_at, waiting, in_batch, nonCadenceVars>>

\* The event loop resumes _ocr_loop with the results: the pair loop calls
\* insert_frame on the thread. A batch whose OCR raised is counted as failed
\* and the loop is back at its head.
ProcessingResumes(ocr_raised) ==
    /\ proc_at = "answered"
    /\ thread = "idle"
    /\ IF ocr_raised
       THEN LoopHead(waiting)
       ELSE /\ thread' = "processing"
            /\ proc_at' = "insert_frame"
            /\ UNCHANGED <<waiting, in_batch>>
    /\ UNCHANGED <<cap_at, nonCadenceVars>>

\* The pair loop goes on to the next pair of the batch, or is over.
NextPair ==
    IF in_batch > 1
    THEN /\ in_batch' = in_batch - 1
         /\ proc_at' = "insert_frame"
         /\ UNCHANGED <<thread, waiting>>
    ELSE LoopHead(waiting)

\* insert_frame and insert_text_blocks have returned; with text blocks,
\* index_text_blocks is called on the thread.
StorageWrites(blocks) ==
    /\ thread = "processing"
    /\ proc_at = "insert_frame"
    /\ IF blocks
       THEN /\ proc_at' = "index_text_blocks"
            /\ UNCHANGED <<thread, waiting, in_batch>>
       ELSE NextPair
    /\ UNCHANGED <<cap_at, nonCadenceVars>>

\* index_text_blocks has embedded and indexed the text blocks of the pair.
Indexing ==
    /\ thread = "processing"
    /\ proc_at = "index_text_blocks"
    /\ NextPair
    /\ UNCHANGED <<cap_at, nonCadenceVars>>

\* ------------------------------------------------------------ the capture loops
\* What a capture may take, in milliseconds.
ElapsedTimes == {0, 300, 1000, 6000}

\* CaptureService.__init__ reads capture.enable_adaptive_fps and constructs
\* the monitor, with active_fps = self.fps, only when it is set.
InitLoop(adaptive) ==
    /\ enable_adaptive_fps = adaptive
    /\ loop_kind = "none"
    /\ current_fps = 0
    /\ elapsed = 0
    /\ sleep_time = -1

\* 1.0 / fps in milliseconds, for a rate in tenths of a frame per second.
Interval(rate) == 10000 \div rate

\* max(0, interval - elapsed)
SleepTime(interval, el) == IF interval - el > 0 THEN interval - el ELSE 0

\* An iteration of ProcessingPipeline._capture_loop while the user has been
\* idle as the probe says: the interval is the one computed before the loop
\* from capture_service.fps; the monitor is not asked.
PipelineIteration(probe, el) ==
    /\ loop_kind' = "pipeline"
    /\ current_fps' = active_fps
    /\ elapsed' = el
    /\ sleep_time' = SleepTime(Interval(active_fps), el)
    /\ UNCHANGED <<enable_adaptive_fps, nonLoopVars>>

\* An iteration of CaptureService.capture_loop: the rate is the monitor's
\* when there is a monitor, self.fps otherwise.
ServiceIteration(probe, el) ==
    /\ loop_kind' = "service"
    /\ elapsed' = el
    /\ IF enable_adaptive_fps
       THEN /\ seconds_idle' = get_seconds_since_last_input(probe)
            /\ probe_failed' = (probe = <<>>)
            /\ adaptive_fps' = IF is_user_active(get_seconds_since_last_input(probe))
                               THEN active_fps ELSE idle_fps
            /\ current_fps' = adaptive_fps'
       ELSE /\ current_fps' = active_fps
            /\ UNCHANGED <<seconds_idle, probe_failed, adaptive_fps>>
    /\ sleep_time' = SleepTime(Interval(current_fps'), el)
    /\ UNCHANGED <<enable_adaptive_fps, idle_threshold, active_fps, idle_fps,
                   pipeVars, ocrVars, differVars, db_error, serviceVars,
                   searchVars, recordVars, startupVars, cadenceVars,
                   indexVars, configVars, blockVars>>

\* ---------------------------------------------------------- index_text_blocks
MaxIndexCalls == 2
MaxBlocks == 2
MaxTextLen == 2

\* A text is a sequence of characters; "sp" is white space, "a" is not.
Chars == {"sp", "a"}
Texts == UNION {[1..n -> Chars] : n \in 0..MaxTextLen}
BlockIds == 1..MaxBlocks

\* The lists of text blocks passed in: blocks with distinct ids.
BlockLists ==
    {bs \in UNION {[1..n -> [block_id : BlockIds, text : Texts]] : n \in 0..MaxBlocks} :
        \A i, j \in 1..Len(bs) : i # j => bs[i].block_id # bs[j].block_id}

InitIndex ==
    /\ collection = {}
    /\ embed_calls = 0
    /\ add_calls = 0
    /\ index_calls = 0

\* str.strip()
RECURSIVE StripLeft(_)
StripLeft(t) == IF t # <<>> /\ Head(t) = "sp" THEN StripLeft(Tail(t)) ELSE t

RECURSIVE StripRight(_)
StripRight(t) ==
    IF t # <<>> /\ t[Len(t)] = "sp" THEN StripRight(SubSeq(t, 1, Len(t) - 1)) ELSE t

Strip(t) == StripRight(StripLeft(t))

\* if not text or len(text.strip()) == 0: continue
Blank_EmptyOnly(text) == text = <<>>
Blank(text) == text = <<>> \/ Len(Strip(text)) = 0

\* The id, document and metadata index_text_blocks builds for a block.
Entry(f, b) == [id |-> b.block_id, frame_id |-> f, document |-> b.text]

\* The ids, texts and metadatas lists, as one list of entries.
RECURSIVE Prepared(_, _)
Prepared(f, bs) ==
    IF bs = <<>> THEN <<>>
    ELSE IF Blank(Head(bs).text) THEN Prepared(f, Tail(bs))
    ELSE <<Entry(f, Head(bs))>> \o Prepared(f, Tail(bs))

\* EmbeddingService.index_text_blocks(frame_metadata, text_blocks), the
\* blocks carrying fresh ids.
index_text_blocks(f, bs) ==
    /\ index_calls < MaxIndexCalls
    /\ \A i \in 1..Len(bs) : \A e \in collection : e.id # bs[i].block_id
    /\ index_calls' = index_calls + 1
    /\ IF ~embeddings_enabled \/ bs = <<>> \/ Prepared(f, bs) = <<>>
       THEN UNCHANGED <<collection, embed_calls, add_calls>>
       ELSE /\ embed_calls' = embed_calls + 1
            /\ add_calls' = add_calls + 1
            /\ collection' = collection \cup
                   {Prepared(f, bs)[i] : i \in 1..Len(Prepared(f, bs))}
    /\ UNCHANGED nonIndexVars

\* --------------------------------------------------------------------- Config
MaxInstances == 2
Instances == 1..MaxInstances

\* One section of the configuration, "capture", with two of its keys.
FpsValues == {1, 5}
Formats == {"png", "webp"}
CaptureSections == [fps : FpsValues, format : Formats]

\* The values DEFAULT_CONFIG is shipped with.
Shipped == [fps |-> 1, format |-> "png"]

\* DEFAULT_CONFIG: its top level maps a section to the dict object holding
\* the section; that object is number 1, and settings loaded from a file
\* would be held by objects of their own.
DEFAULT_CONFIG == [capture |-> 1]

\* The module is imported, no Config constructed, no settings file written.
InitConfig ==
    /\ objects = <<Shipped>>
    /\ config = [i \in Instances |-> [capture |-> 0]]
    /\ settings_file = <<>>
    /\ got = [fps |-> <<>>, format |-> <<>>]

\* dict.copy(): a new top level holding the same objects.
CopyOf(top) == top

\* The file json.dump writes for a top level.
Dump(top, objs) == <<objs[top.capture]>>

\* _deep_merge(base, update) for a file that holds every key of the section:
\* the values are assigned into the dict object base refers to.
DeepMerge(top, user, objs) == [objs EXCEPT ![top.capture] = user]

\* Config.__init__, that is _load_config: with a settings file the file is
\* merged into a copy of the defaults, without one the defaults are written
\* to the file and a copy of them is kept.
ConstructConfig(i) ==
    /\ config' = [config EXCEPT ![i] = CopyOf(DEFAULT_CONFIG)]
    /\ IF settings_file = <<>>
       THEN /\ settings_file' = Dump(DEFAULT_CONFIG, objects)
            /\ UNCHANGED objects
       ELSE /\ objects' = DeepMerge(CopyOf(DEFAULT_CONFIG), settings_file[1], objects)
            /\ UNCHANGED settings_file
    /\ UNCHANGED <<got, nonConfigVars>>

Constructed(i) == config[i].capture # 0

\* Config.get("capture.<k>")
get(i, k) == objects[config[i].capture][k]

GetValue(i, k) ==
    /\ Constructed(i)
    /\ got' = [got EXCEPT ![k] = <<get(i, k)>>]
    /\ UNCHANGED <<objects, config, settings_file, nonConfigVars>>

\* Config.set("capture.<k>", v): the section is looked up and assigned into.
SetValue(i, k, v) ==
    /\ Constructed(i)
    /\ objects' = [objects EXCEPT ![config[i].capture][k] = v]
    /\ UNCHANGED <<config, settings_file, got, nonConfigVars>>

\* Config.save
SaveConfig(i) ==
    /\ Constructed(i)
    /\ settings_file' = Dump(config[i], objects)
    /\ UNCHANGED <<objects, config, got, nonConfigVars>>

\* Config.reset_all: self.config = DEFAULT_CONFIG.copy(); self.save()
reset_all(i) ==
    /\ Constructed(i)
    /\ config' = [config EXCEPT ![i] = CopyOf(DEFAULT_CONFIG)]
    /\ settings_file' = Dump(CopyOf(DEFAULT_CONFIG), objects)
    /\ UNCHANGED <<objects, got, nonConfigVars>>

\* The settings file is deleted (a test's temporary directory, a reset).
RemoveSettingsFile ==
    /\ settings_file # <<>>
    /\ settings_file' = <<>>
    /\ UNCHANGED <<objects, config, got, nonConfigVars>>

\* ------------------------------------------------- text blocks from responses
MaxExtractCalls == 2

\* Confidences in hundredths: 0.8 is 80, 1.5 is 150.
Confidences == {-10, 0, 80, 100, 150}

\* The content types the prompt asks for, and one it does not.
ContentTypes == {"code", "terminal", "prose", "ui_element", "mixed"}
ProviderTypes == ContentTypes \cup {"table"}

\* A field of the JSON object: <<>> when missing, <<v>> when present.
Field(values) == {<<>>} \cup {<<v>> : v \in values}

\* What response.choices[0].message.content can hold: text that is not JSON,
\* JSON that is not an object, or a JSON object.
Contents ==
    [kind : {"raw", "json_other"}, confidence : {<<>>}, block_type : {<<>>}]
        \cup [kind : {"json"}, confidence : Field(Confidences),
              block_type : Field(ProviderTypes)]

InitBlocks ==
    /\ emitted = {}
    /\ extract_calls = 0

\* json.loads(content), and the dict built when it raises JSONDecodeError.
Parsed(resp) ==
    IF resp.kind = "raw"
    THEN [kind |-> "json", confidence |-> <<80>>, block_type |-> <<"mixed">>]
    ELSE resp

\* result.get(key, default)
GetOr(field, default) == IF field = <<>> THEN default ELSE field[1]

\* The text block OpenAIOCR.extract_text builds from a response.
OpenAIBlock(resp) ==
    [confidence |-> GetOr(Parsed(resp).confidence, 90),
     block_type |-> GetOr(Parsed(resp).block_type, "mixed")]

\* OpenAIOCR.extract_text from the response on: a JSON value that is not an
\* object has no get, the attempt raises, and no block is returned.
OpenAIExtract(resp) ==
    /\ extract_calls < MaxExtractCalls
    /\ extract_calls' = extract_calls + 1
    /\ emitted' = IF resp.kind = "json_other"
                  THEN emitted
                  ELSE emitted \cup {OpenAIBlock(resp)}
    /\ UNCHANGED nonBlockVars

\* A line of recognised text, by what _determine_block_type looks at.
Lines == [code : BOOLEAN, terminal : BOOLEAN, short : BOOLEAN]
MaxLines == 2
VisionTexts == UNION {[1..n -> Lines] : n \in 1..MaxLines}

RECURSIVE CountLines(_, _)
CountLines(lines, attr) ==
    IF lines = <<>> THEN 0
    ELSE (IF Head(lines)[attr] THEN 1 ELSE 0) + CountLines(Tail(lines), attr)

\* AppleVisionOCR._determine_block_type: more than 0.3 of the lines look like
\* code, else more than 0.2 like a terminal, else more than half are short.
DetermineBlockType(lines) ==
    IF CountLines(lines, "code") * 10 > Len(lines) * 3 THEN "code"
    ELSE IF CountLines(lines, "terminal") * 10 > Len(lines) * 2 THEN "terminal"
    ELSE IF CountLines(lines, "short") * 10 > Len(lines) * 5 THEN "ui_element"
    ELSE "mixed"

\* AppleVisionOCR.extract_text for an image in which text was found.
AppleVisionExtract(lines) ==
    /\ extract_calls < MaxExtractCalls
    /\ extract_calls' = extract_calls + 1
    /\ emitted' = emitted \cup
          {[confidence |-> 95, block_type |-> DetermineBlockType(lines)]}
    /\ UNCHANGED nonBlockVars

\* ------------------------------------------------------------- specification
\* ProcessingPipeline.__init__ constructs an OpenAIOCR.
Init ==
    /\ InitPipeline
    /\ impl = "openai"
    /\ InitOCR
    /\ InitDiffer
    /\ db_error = "none"
    /\ InitMonitor(30, 10, 2)
    /\ InitService(20, 0)
    /\ InitSearch
    /\ InitRecords
    /\ InitConstructed
    /\ InitCadence
    /\ InitLoop(TRUE)
    /\ InitIndex
    /\ InitConfig
    /\ InitBlocks

Next ==
    \/ AppArrive
    \/ AppYield
    \/ Start
    \/ StartNoop
    \/ \E g \in Tasks : CaptureWake(g)
    \/ \E g \in Tasks : CaptureExit(g)
    \/ \E g \in Tasks : CaptureFrame(g)
    \/ \E g \in Tasks : CaptureNone(g)
    \/ \E g \in Tasks : CaptureRaise(g)
    \/ \E g \in Tasks : OcrWake(g)
    \/ \E g \in Tasks : OcrIoDone(g)
    \/ \E g \in Tasks : OcrRun(g)
    \/ \E g \in Tasks : OcrResults(g)
    \/ \E c \in StopCalls : StopBegin(c)
    \/ \E c \in StopCalls : StopResumeCapture(c)
    \/ \E c \in StopCalls : StopResumeOcr(c)

Spec == Init /\ [][Next]_vars

\* One run of the pipeline (a single start()), with every pair outcome and
\* with a process_batch that may raise.
StartOnce == launched = 0 /\ Start

NextBatch ==
    \/ AppArrive
    \/ AppYield
    \/ StartOnce
    \/ StartNoop
    \/ \E g \in Tasks : CaptureWake(g)
    \/ \E g \in Tasks : CaptureExit(g)
    \/ \E g \in Tasks : CaptureFrame(g)
    \/ \E g \in Tasks : CaptureNone(g)
    \/ \E g \in Tasks : CaptureRaise(g)
    \/ \E g \in Tasks : OcrWake(g)
    \/ \E g \in Tasks : OcrIoDone(g)
    \/ \E g \in Tasks : OcrRun(g)
    \/ \E g \in Tasks : OcrResultsAny(g)
    \/ \E g \in Tasks : OcrBatchRaised(g)
    \/ \E c \in StopCalls : StopBegin(c)
    \/ \E c \in StopCalls : StopResumeCapture(c)
    \/ \E c \in StopCalls : StopResumeOcr(c)

SpecBatch == Init /\ [][NextBatch]_vars

\* Concurrent process_batch calls on one OCR service of either class.
InitCallers ==
    /\ InitPipeline
    /\ impl \in {"openai", "apple"}
    /\ InitOCR
    /\ InitDiffer
    /\ db_error = "none"
    /\ InitMonitor(30, 10, 2)
    /\ InitService(20, 0)
    /\ InitSearch
    /\ InitRecords
    /\ InitConstructed
    /\ InitCadence
    /\ InitLoop(TRUE)
    /\ InitIndex
    /\ InitConfig
    /\ InitBlocks

CallerStep(k) ==
    \/ ExtractText(k)
    \/ ExecutorDone(k)
    \/ Attempt(k)
    \/ LockGranted(k)
    \/ GateWake(k)
    \/ Response(k)
    \/ BackoffWake(k)

NextOCR ==
    \/ \E k \in Callers : \E paths \in Batches : ProcessBatch(k, paths)
    \/ \E k \in Callers : ExtractText(k)
    \/ \E k \in Callers : ExecutorDone(k)
    \/ \E k \in Callers : Attempt(k)
    \/ \E k \in Callers : LockGranted(k)
    \/ \E k \in Callers : GateWake(k)
    \/ \E k \in Callers : Response(k)
    \/ \E k \in Callers : BackoffWake(k)
    \/ Tick

SpecOCR == InitCallers /\ [][NextOCR]_vars

\* The event loop runs every coroutine that can run, time passes, and the
\* provider answers every request (the client call carries a timeout).
SpecOCRFair ==
    /\ SpecOCR
    /\ WF_vars(Tick)
    /\ \A k \in Callers : WF_vars(CallerStep(k))


\* A differ fed any sequence of images.
NextDiffer == \E img \in Images : should_capture_frame(img)

SpecDiffer == Init /\ [][NextDiffer]_vars

\* A database written to directly.
NextStore ==
    \/ \E f \in FrameIds : InsertFrame(f)
    \/ \E bs \in {<<>>} \cup {<<b>> : b \in TextBlockRows} : InsertTextBlocks(bs)
    \/ CloseDatabase

SpecStore == Init /\ [][NextStore]_vars

\* A monitor of any configuration, asked for the rate again and again.
InitMonitors ==
    /\ InitPipeline
    /\ impl = "openai"
    /\ InitOCR
    /\ InitDiffer
    /\ db_error = "none"
    /\ \E t \in Thresholds, fa \in ActiveRates, fi \in IdleRates : InitMonitor(t, fa, fi)
    /\ InitService(20, 0)
    /\ InitSearch
    /\ InitRecords
    /\ InitConstructed
    /\ InitCadence
    /\ InitLoop(TRUE)
    /\ InitIndex
    /\ InitConfig
    /\ InitBlocks

NextMonitor == \E probe \in Probes : get_adaptive_fps(probe)

SpecMonitor == InitMonitors /\ [][NextMonitor]_vars

\* A capture service started on a disk and a directory in any condition.
InitCapture ==
    /\ InitPipeline
    /\ impl = "openai"
    /\ InitOCR
    /\ InitDiffer
    /\ db_error = "none"
    /\ InitMonitor(30, 10, 2)
    /\ \E free \in FreeSpace, used \in 0..(max_disk_usage_gb + 1) : InitService(free, used)
    /\ InitSearch
    /\ InitRecords
    /\ InitConstructed
    /\ InitCadence
    /\ InitLoop(TRUE)
    /\ InitIndex
    /\ InitConfig
    /\ InitBlocks

NextCapture ==
    \/ \E in \in CaptureInputs : capture_frame(in)
    \/ DiskSpaceChanges
    \/ RemoveFrames

SpecCapture == InitCapture /\ [][NextCapture]_vars

\* The stores written to directly, with the retention cleanup.
NextRetention ==
    \/ NextStore
    \/ \E f \in FrameIds : IndexTextBlocks(f)
    \/ \E f \in FrameIds : DeleteFrameBlocks(f)
    \/ \E old \in SUBSET FrameIds : cleanup_old_frames(old)

SpecRetention == Init /\ [][NextRetention]_vars

\* Frames are persisted and cleaned up while the surfaces search.
NextSearch ==
    \/ \E f \in FrameIds, o \in PairOutcomes : PersistFrame(f, o)
    \/ \E old \in SUBSET FrameIds : cleanup_old_frames(old)
    \/ \E s \in Surfaces, cands \in Candidates, rr \in BOOLEAN,
          rk \in {"none", "ok", "raises"}, scores \in [FrameIds -> RerankScores] :
          Search(s, cands, rr, rk, scores)
    \/ GetFrame
    \/ GetTextBlock

SpecSearch == Init /\ [][NextSearch]_vars

\* Frame records inserted, fetched and cleaned up.
NextRecords ==
    \/ \E rec \in FrameRecords : InsertFrameRecord(rec)
    \/ \E id \in FrameIds : FetchFrame(id)
    \/ \E old \in SUBSET FrameIds : cleanup_old_frames(old)

SpecRecords == Init /\ [][NextRecords]_vars

\* The start command: a pipeline is constructed from any configuration and,
\* if the constructor returned, started and run.
InitStartup ==
    /\ InitPipeline
    /\ impl = "openai"
    /\ InitOCR
    /\ InitDiffer
    /\ db_error = "none"
    /\ InitMonitor(30, 10, 2)
    /\ InitService(20, 0)
    /\ InitSearch
    /\ InitRecords
    /\ api_key \in {"present", "missing"}
    /\ embeddings_enabled \in BOOLEAN
    /\ provider \in Providers
    /\ backend_ok \in BOOLEAN
    /\ ~embeddings_enabled => provider = "sbert" /\ backend_ok
    /\ constructed = "no"
    /\ construct_error = "none"
    /\ InitCadence
    /\ InitLoop(TRUE)
    /\ InitIndex
    /\ InitConfig
    /\ InitBlocks

NextStartup ==
    \/ ConstructPipeline
    \/ constructed = "yes" /\ NextBatch

SpecStartup == InitStartup /\ [][NextStartup]_vars

\* A running pipeline, seen call by call.
NextCadence ==
    \/ CaptureDue
    \/ CaptureStarts
    \/ \E result \in {"failed", "skipped", "kept"}, sleeps \in BOOLEAN :
          Screencapture(result, sleeps)
    \/ \E sleeps \in BOOLEAN : WindowInfo(sleeps)
    \/ ProcessingDue
    \/ ProcessingStarts
    \/ OcrAnswers
    \/ \E ocr_raised \in BOOLEAN : ProcessingResumes(ocr_raised)
    \/ \E blocks \in BOOLEAN : StorageWrites(blocks)
    \/ Indexing

SpecCadence == Init /\ [][NextCadence]_vars

\* The two capture loops under any configuration of the rates.
InitLoops ==
    /\ InitPipeline
    /\ impl = "openai"
    /\ InitOCR
    /\ InitDiffer
    /\ db_error = "none"
    /\ \E t \in Thresholds, fa \in ActiveRates, fi \in IdleRates : InitMonitor(t, fa, fi)
    /\ InitService(20, 0)
    /\ InitSearch
    /\ InitRecords
    /\ InitConstructed
    /\ InitCadence
    /\ \E adaptive \in BOOLEAN : InitLoop(adaptive)
    /\ InitIndex
    /\ InitConfig
    /\ InitBlocks

NextLoops ==
    \/ \E probe \in Probes, el \in ElapsedTimes : PipelineIteration(probe, el)
    \/ \E probe \in Probes, el \in ElapsedTimes : ServiceIteration(probe, el)

SpecLoops == InitLoops /\ [][NextLoops]_vars

\* An embedding service, enabled or not, asked to index lists of blocks.
InitIndexing ==
    /\ InitPipeline
    /\ impl = "openai"
    /\ InitOCR
    /\ InitDiffer
    /\ db_error = "none"
    /\ InitMonitor(30, 10, 2)
    /\ InitService(20, 0)
    /\ InitSearch
    /\ InitRecords
    /\ api_key = "present"
    /\ embeddings_enabled \in BOOLEAN
    /\ provider = "sbert"
    /\ backend_ok = TRUE
    /\ constructed = "yes"
    /\ construct_error = "none"
    /\ InitCadence
    /\ InitLoop(TRUE)
    /\ InitIndex
    /\ InitConfig
    /\ InitBlocks

NextIndexing == \E f \in FrameIds, bs \in BlockLists : index_text_blocks(f, bs)

SpecIndexing == InitIndexing /\ [][NextIndexing]_vars

\* start() only on a pipeline that was never started or whose stop() has
\* completed: no loop is alive and no stop() call is suspended.
StartAfterStop ==
    /\ \A g \in Tasks : ~CaptureLive(g) /\ ~OcrLive(g)
    /\ \A c \in StopCalls : stopPc[c] \notin {"await_capture", "await_ocr"}
    /\ Start

\* Runs of one pipeline object, each started after the one before has ended.
NextRestart ==
    \/ AppArrive
    \/ AppYield
    \/ StartAfterStop
    \/ StartNoop
    \/ \E g \in Tasks : CaptureWake(g)
    \/ \E g \in Tasks : CaptureExit(g)
    \/ \E g \in Tasks : CaptureFrame(g)
    \/ \E g \in Tasks : CaptureNone(g)
    \/ \E g \in Tasks : OcrWake(g)
    \/ \E g \in Tasks : OcrIoDone(g)
    \/ \E g \in Tasks : OcrRun(g)
    \/ \E g \in Tasks : OcrResults(g)
    \/ \E c \in StopCalls : StopBegin(c)
    \/ \E c \in StopCalls : StopResumeCapture(c)
    \/ \E c \in StopCalls : StopResumeOcr(c)

SpecRestart == Init /\ [][NextRestart]_vars

\* Config instances of one process.
NextConfig ==
    \/ \E i \in Instances : ConstructConfig(i)
    \/ \E i \in Instances, k \in {"fps", "format"} : GetValue(i, k)
    \/ \E i \in Instances, v \in FpsValues : SetValue(i, "fps", v)
    \/ \E i \in Instances, v \in Formats : SetValue(i, "format", v)
    \/ \E i \in Instances : SaveConfig(i)
    \/ \E i \in Instances : reset_all(i)
    \/ RemoveSettingsFile

SpecConfig == Init /\ [][NextConfig]_vars

\* Responses handled by the two OCR providers.
NextBlocks ==
    \/ \E resp \in Contents : OpenAIExtract(resp)
    \/ \E lines \in VisionTexts : AppleVisionExtract(lines)

SpecBlocks == Init /\ [][NextBlocks]_vars

\* ------------------------------------------------------------ pipeline claims
AnyLoopLive == \E g \in Tasks : CaptureLive(g) \/ OcrLive(g)

\* The frames the capture loop has put on the queue so far.
Enqueued == 1..captured

\* A stop() call gets past the running check, awaits the loops and returns in
\* this step.
StopReturns(c) == stopPc[c] # "returned" /\ stopPc'[c] = "returned"

\* What C1 promises of the state in which stop() returns.
Drained ==
    /\ ~AnyLoopLive
    /\ ocr_queue = <<>>
    /\ \A f \in Enqueued : dispatched[f] >= 1 /\ f \in attempted \cup batch_failed

\* C1: when a stop() call on a running pipeline returns, both loops have
\* ended, the queue is empty and every enqueued frame has been dispatched to
\* OCR and attempted, so that no storage write of the run follows the close.
C1_StopReturnsDrained ==
    [][\A c \in StopCalls : StopReturns(c) => Drained']_vars

\* The lifecycle state of the pipeline, read off the flag and the loops.
Phase ==
    IF running THEN "Running"
    ELSE IF AnyLoopLive THEN "Draining"
    ELSE "Stopped"

LifecycleTransitions ==
    {<<"Stopped", "Running">>, <<"Running", "Draining">>, <<"Draining", "Stopped">>}

\* C2: a run only goes Stopped -> Running -> Draining -> Stopped, and a frame
\* is enqueued only while Running (never while Stopped or Draining).
C2_Lifecycle ==
    [][/\ Phase' # Phase => <<Phase, Phase'>> \in LifecycleTransitions
       /\ captured' # captured => Phase = "Running"]_vars

\* C3: a stop() call that finds the pipeline not running returns at once: it
\* awaits no loop, does not close the database, and changes nothing; and no
\* queue entry is ever dispatched to OCR twice.
C3_SecondStopIsNoop ==
    [][/\ \A c \in StopCalls :
            (stopPc[c] = "idle" /\ stopPc'[c] # "idle" /\ ~running) =>
                /\ stopPc'[c] = "noop"
                /\ UNCHANGED <<running, ocr_queue, stats, capPc, ocrPc, batch,
                               conn, db_frames, db_blocks, vec_index,
                               window_tracking, dispatched, attempted>>
       /\ \A f \in FrameIds : dispatched'[f] <= 1]_vars

\* A second stop() after a first one that drained a persisted frame and closed
\* the database.
C3_Witness ==
    /\ stopPc[1] = "returned"
    /\ stopPc[2] = "noop"
    /\ db_frames # {}
    /\ ~conn

\* C4: an exception in one pair of a batch does not lose the rest: every
\* frame of the batch the pair loop ran over was attempted and counted once
\* (or its whole batch was counted failed when process_batch raised), and the
\* processing loop has ended only with the pipeline not running and the queue
\* empty.
C4_BatchSurvivesPairFailure ==
    /\ \A i \in 1..Len(last_batch) : last_batch[i] \in attempted \cup batch_failed
    /\ stats.frames_processed + stats.frames_failed
         = Cardinality(attempted) + Cardinality(batch_failed)
    /\ attempted \cap batch_failed = {}
    /\ \A g \in Tasks : ocrPc[g] = "done" => ~running /\ ocr_queue = <<>>

\* The first pair of a two-frame batch failed, the second was persisted, and
\* the loop went on to run.
C4_Witness ==
    /\ last_batch = <<1, 2>>
    /\ 1 \in attempted \ db_frames
    /\ 2 \in db_frames
    /\ stats.frames_failed = 1
    /\ \E g \in Tasks : OcrLive(g)

\* C5: at-least-once delivery: when stop() returns, every frame that was
\* enqueued is in the frames table.
C5_AtLeastOnce ==
    [][\A c \in StopCalls : StopReturns(c) => \A f \in 1..captured' : f \in db_frames']_vars

\* An earlier stop() call is suspended on one of the loops.
StopDraining(c) ==
    \E d \in StopCalls : d # c /\ stopPc[d] \in {"await_capture", "await_ocr"}

\* C26: a stop() call that begins while an earlier stop() is still draining
\* does not return to its caller before both loops have ended, the queue is
\* empty and the database is closed.
C26_OverlappingStopWaits ==
    [][\A c \in StopCalls :
          (stopPc[c] = "idle" /\ stopPc'[c] # "idle" /\ StopDraining(c)) =>
              \/ stopPc'[c] \in {"await_capture", "await_ocr"}
              \/ ~AnyLoopLive' /\ ocr_queue' = <<>> /\ ~conn']_vars

\* C27: whatever start() and stop() calls have been made, at most one capture
\* loop and at most one processing loop are alive.
C27_AtMostOneLoopPair ==
    /\ Cardinality({g \in Tasks : CaptureLive(g)}) <= 1
    /\ Cardinality({g \in Tasks : OcrLive(g)}) <= 1

\* The entries of the batches handed to OCR whose pair loop has not run yet.
RECURSIVE InFlight(_)
InFlight(g) ==
    IF g = 0 THEN 0
    ELSE InFlight(g - 1) + IF ocrPc[g] \in {"ocr", "results"} THEN Len(batch[g]) ELSE 0

Conserved ==
    stats.frames_captured
        = stats.frames_processed + stats.frames_failed + Len(ocr_queue) + InFlight(MaxStarts)

\* C28: every captured frame is processed, failed, queued or in the batch in
\* flight; the reported ocr_queue_size is the queue's length whenever no
\* coroutine holds the thread; and when stop() returns, every captured frame
\* has been counted processed or failed.
C28_CounterConservation ==
    /\ [](Conserved /\ (cur = None => stats.ocr_queue_size = Len(ocr_queue)))
    /\ [][\A c \in StopCalls : StopReturns(c) =>
            stats'.frames_captured = stats'.frames_processed + stats'.frames_failed]_vars

\* Frame ids are handed out in capture order: q holds frames oldest first.
InCaptureOrder(q) == \A i, j \in 1..Len(q) : i < j => q[i] < q[j]

\* C29: the queue and every batch hold frames in capture order, a frame's
\* persist is attempted only when every frame captured before it has been
\* attempted (or was counted failed with its batch), and no frame is
\* dispatched to OCR in more than one batch.
C29_FifoOrder ==
    [][/\ InCaptureOrder(ocr_queue')
       /\ \A g \in Tasks : InCaptureOrder(batch'[g])
       /\ \A b \in attempted' \ attempted :
            \A a \in 1..(b - 1) : a \in attempted' \cup batch_failed'
       /\ \A f \in FrameIds : dispatched'[f] <= 1]_vars

\* Processing loop g hands a batch to OCR in this step.
Dispatches(g) == batch'[g] # <<>> /\ batch'[g] # batch[g]

\* Processing loop g runs the head of its loop in this step.
AtLoopHead(g) == OcrRun(g) \/ OcrResultsAny(g) \/ OcrBatchRaised(g)

C7_OneResultPerItem ==
    \A k \in Callers :
        /\ obPc[k] # "idle" => Len(results[k]) = idx[k] - 1
        /\ obPc[k] = "returned" => Len(results[k]) = Len(image_paths[k])
        /\ \A i \in 1..Len(results[k]) :
               results[k][i] \in {<<>>, <<TextBlock(image_paths[k][i])>>}
        /\ \A i \in raised[k] : i <= Len(results[k]) /\ results[k][i] = <<>>

\* A returned call on two frames whose first extract_text raised and whose
\* second produced a block.
C7_Witness ==
    /\ obPc[1] = "returned"
    /\ image_paths[1] = <<2, 1>>
    /\ raised[1] = {1}
    /\ results[1] = << <<>>, <<TextBlock(1)>> >>

\* An item of caller k is finished in this step by an answer of the provider.
AnsweredItem(k) == obPc[k] = "request" /\ Len(results'[k]) = Len(results[k]) + 1

\* C8: OpenAIOCR.extract_text calls the provider at most max_retries times per
\* item, passes the rate gate before each call, ends an item after a failed
\* attempt only when that was attempt number max_retries (with an empty list),
\* ends it with the frame's one block otherwise, and every started call of
\* process_batch returns.
C8_BoundedRetries ==
    /\ [](impl = "openai" =>
            \A k \in Callers : calls[k] <= max_retries /\ gates[k] = calls[k])
    /\ [][impl = "openai" =>
            \A k \in Callers : AnsweredItem(k) =>
                \/ results'[k][idx[k]] = <<TextBlock(image_paths[k][idx[k]])>>
                \/ results'[k][idx[k]] = <<>> /\ calls[k] = max_retries]_vars
    /\ \A k \in Callers : (obPc[k] # "idle") ~> (obPc[k] = "returned")

\* A call on one frame that returned an empty list after max_retries failed
\* attempts, each behind a gate pass.
C8_Witness ==
    /\ impl = "openai"
    /\ obPc[1] = "returned"
    /\ image_paths[1] = <<1>>
    /\ raised[1] = {}
    /\ calls[1] = max_retries
    /\ gates[1] = max_retries
    /\ results[1] = << <<>> >>

\* Caller k is inside _rate_limit, between reading and writing last_request_time.
InGate(k) == obPc[k] = "gate_sleep"

\* Caller k leaves the gate in this step.
LeavesGate(k) == obPc[k] # "request" /\ obPc'[k] = "request"

\* C9: at most one caller is inside the rate gate, and it holds the lock while
\* it sleeps there; a caller leaves the gate no sooner than
\* min_request_interval after the caller before it.
C9_GateSpacing ==
    /\ [](\A k \in Callers : InGate(k) =>
            /\ lock_holder = k
            /\ \A j \in Callers : InGate(j) => j = k)
    /\ [][\A k \in Callers : LeavesGate(k) =>
            ~gate_used \/ since_exit >= min_request_interval]_vars

\* Caller 1 has left the gate and awaits the provider; caller 2 holds the lock
\* and has slept out the interval since.
C9_Witness ==
    /\ obPc[1] = "request"
    /\ obPc[2] = "gate_sleep"
    /\ lock_holder = 2
    /\ timer[2] = 0
    /\ gate_used
    /\ since_exit = min_request_interval

\* C35: after a failed attempt k (from 0) that is not the last one, the
\* caller waits 2^k seconds before the next attempt, whatever the error; a
\* failed last attempt is followed by no wait.
C35_ExponentialBackoff ==
    [][\A k \in Callers :
          /\ (obPc[k] = "request" /\ obPc'[k] = "backoff") =>
                 /\ timer'[k] = 2 ^ attempt[k]
                 /\ attempt[k] < max_retries - 1
          /\ (obPc[k] = "request" /\ attempt[k] = max_retries - 1) =>
                 obPc'[k] # "backoff"]_vars

\* -------------------------------------------------------------- storage claims
\* C6: storage writes are idempotent per frame: insert_frame for a frame id
\* that is in the frames table, and insert_text_blocks for blocks that are in
\* the text_blocks table, succeed and leave the tables as they were.
C6_IdempotentWrites ==
    [][/\ \A f \in FrameIds :
            (conn /\ f \in db_frames /\ InsertFrame(f)) =>
                db_error' = "none" /\ db_frames' = db_frames
       /\ \A b \in TextBlockRows :
            (conn /\ b \in db_blocks /\ InsertTextBlocks(<<b>>)) =>
                db_error' = "none" /\ db_blocks' = db_blocks]_vars

\* --------------------------------------------------------------- differ claims
\* C10: on a differ with no baseline, should_capture_frame returns true for
\* every argument, and for every image that loads it stores the image's hash
\* as the baseline and adds one to frames_captured.
C10_FirstFrameKept ==
    [][\A img \in Images :
          (last_hash = <<>> /\ should_capture_frame(img)) =>
              /\ kept'
              /\ img # <<>> => /\ last_hash' = img
                               /\ frames_captured' = frames_captured + 1
                               /\ frames_skipped' = frames_skipped]_vars

\* The first call, on an image with hash 13, has been made.
C10_Witness ==
    /\ image = <<13>>
    /\ last_hash = <<13>>
    /\ kept
    /\ frames_captured = 1
    /\ frames_skipped = 0

\* C11: a discarded frame never changes the baseline: after every call the
\* stored hash is the hash of the call's image when the hash comparison kept
\* it, and the hash stored before the call otherwise.
C11_BaselineIsLastKept ==
    [][\A img \in Images :
          should_capture_frame(img) =>
              last_hash' = IF kept' /\ img # <<>> THEN img ELSE last_hash]_vars

\* Two frames in a row were discarded against the baseline 12; the second,
\* 13, is one bit from the baseline whatever the first was.
C11_Witness ==
    /\ last_hash = <<12>>
    /\ image = <<13>>
    /\ ~kept
    /\ frames_captured = 1
    /\ frames_skipped = 2

\* The Hamming distance of an image's hash to the stored baseline.
DistanceToBaseline(img) ==
    IF img[1] >= last_hash[1] THEN img[1] - last_hash[1] ELSE last_hash[1] - img[1]

\* C12: with a baseline stored, an image that hashes is discarded exactly
\* when 1 - D/256 >= similarity_threshold, and is otherwise kept and made the
\* baseline; an image at distance 0 or 5 is discarded (threshold 0.95).
C12_DiscardIffSimilar ==
    [][\A img \in Images :
          (last_hash # <<>> /\ img # <<>> /\ should_capture_frame(img)) =>
              /\ ~kept' <=> 100 * 256 - 100 * DistanceToBaseline(img)
                                >= similarity_threshold * 256
              /\ DistanceToBaseline(img) \in {0, 5} => ~kept'
              /\ kept' => last_hash' = img]_vars

\* An image 5 bits from the baseline 0 was discarded.
C12_Witness ==
    /\ last_hash = <<0>>
    /\ image = <<5>>
    /\ ~kept
    /\ frames_captured = 1
    /\ frames_skipped = 1

\* C13: when loading or hashing the image fails, should_capture_frame returns
\* true and leaves the stored hash as it was, with or without a baseline.
C13_FailOpen ==
    [][should_capture_frame(<<>>) => kept' /\ last_hash' = last_hash]_vars

\* A failed call on a differ whose baseline is 30 and which had discarded the
\* frame before.
C13_Witness ==
    /\ image = <<>>
    /\ last_hash = <<30>>
    /\ kept
    /\ frames_captured = 1
    /\ frames_skipped = 1

\* ------------------------------------------------------------- monitor claims
\* What C14 says of a call whose probe returned s seconds: active_fps when s
\* is strictly below the threshold, idle_fps otherwise; 0.2 for 45 idle
\* seconds with threshold 30, rates 1.0 and 0.2.
RateForIdleTime(s) ==
    /\ s < idle_threshold => adaptive_fps' = active_fps
    /\ s >= idle_threshold => adaptive_fps' = idle_fps
    /\ (s = 45 /\ idle_threshold = 30 /\ active_fps = 10 /\ idle_fps = 2)
           => adaptive_fps' = 2

C15_PausedOnDiskLimits ==
    [][\A in \in CaptureInputs :
          (/\ capture_frame(in)
           /\ (free_gb < min_free_space_gb \/ frames_dir_usage > max_disk_usage_gb))
          => /\ outcome' = "paused"
             /\ screenshots' = screenshots
             /\ dir_usage' = dir_usage
             /\ svc_frames_captured' = svc_frames_captured
             /\ svc_frames_skipped' = svc_frames_skipped]_vars

\* C16: capture_frame never raises: whatever step fails, the call returns
\* (null or a frame) and the capture loop goes on.
C16_CaptureNeverRaises == outcome # "raised"

\* C17: after a call that returned null because of the disk limits, a call
\* made once the free space is at least the minimum and the capture
\* directory is within its cap again is not refused by the disk check.
C17_CaptureResumes ==
    [][\A in \in CaptureInputs :
          (/\ capture_frame(in)
           /\ outcome = "paused"
           /\ free_gb >= min_free_space_gb
           /\ dir_usage <= max_disk_usage_gb)
          => outcome' # "paused"]_vars

\* The call gets as far as the frame differ with the screenshot taken.
ReachesDiffer(in) ==
    /\ _check_disk_space(in.probe)
    /\ in.fault \notin {"mkdir", "exit_code", "timeout"}

PairLoopRan(g, outs) ==
    LET s == StorePairs(Store, batch[g], outs, conn, 1)
    IN  /\ Turn(Ocr(g))
        /\ ocrPc[g] = "results"
        /\ last_batch' = batch[g]
        /\ batch_failed' = batch_failed
        /\ db_frames' = s.frames
        /\ db_blocks' = s.blocks
        /\ vec_index' = s.index
        /\ window_tracking' = s.windows
        /\ attempted' = s.attempted
        /\ stats'.frames_processed = s.processed
        /\ stats'.frames_failed = s.failed

\* The pairs whose OCR gave nothing: with the OpenAI service, the frames whose
\* request failed until the retries ran out.
OcrFailed(outs) == {i \in DOMAIN outs : ~outs[i].blocks}

\* C18: every frame of a batch whose OCR failed after its retries is counted
\* in frames_failed and not in frames_processed.
C18_OcrFailureCounted ==
    [][\A g \in Tasks : \A outs \in [1..Len(batch[g]) -> PairOutcomes] :
          PairLoopRan(g, outs) =>
              /\ stats'.frames_failed - stats.frames_failed
                     >= Cardinality(OcrFailed(outs))
              /\ stats'.frames_processed - stats.frames_processed
                     <= Len(batch[g]) - Cardinality(OcrFailed(outs))]_vars

\* C19: update_window_tracking is called for every frame of a batch whose
\* insert_frame succeeded, also when its text blocks could not be inserted.
C19_WindowTrackedOnPersist ==
    [][\A g \in Tasks : \A outs \in [1..Len(batch[g]) -> PairOutcomes] :
          PairLoopRan(g, outs) =>
              \A i \in 1..Len(batch[g]) :
                  (/\ batch[g][i] \in db_frames' \ db_frames
                   /\ outs[i].fault # "update_window_tracking")
                  => batch[g][i] \in window_tracking']_vars

\* The pairs in which a call of the pair loop raised.
PairRaised(outs) == {i \in DOMAIN outs : outs[i].fault # "none"}

\* C31: every pair of a batch in which a storage call or the index call
\* raised adds one to frames_failed and nothing to frames_processed.
C31_PairFailureCounted ==
    [][\A g \in Tasks : \A outs \in [1..Len(batch[g]) -> PairOutcomes] :
          PairLoopRan(g, outs) =>
              /\ stats'.frames_failed - stats.frames_failed
                     >= Cardinality(PairRaised(outs))
              /\ stats'.frames_processed - stats.frames_processed
                     <= Len(batch[g]) - Cardinality(PairRaised(outs))]_vars

\* C32: a pair whose OCR result is empty and in which nothing raises puts the
\* frame in the frames table and in window tracking and counts it processed;
\* no text-block row and no vector is written for it.
C32_EmptyResultPersistsFrame ==
    [][\A g \in Tasks : \A outs \in [1..Len(batch[g]) -> PairOutcomes] :
          PairLoopRan(g, outs) =>
              \A i \in 1..Len(batch[g]) :
                  (/\ ~outs[i].blocks
                   /\ outs[i].fault = "none"
                   /\ conn
                   /\ batch[g][i] \notin db_frames)
                  => /\ batch[g][i] \in db_frames'
                     /\ batch[g][i] \in window_tracking'
                     /\ (BlockOf(batch[g][i]) \in db_blocks'
                            <=> BlockOf(batch[g][i]) \in db_blocks)
                     /\ (batch[g][i] \in vec_index' <=> batch[g][i] \in vec_index)
                     /\ stats'.frames_processed - stats.frames_processed
                            >= Cardinality({j \in 1..Len(batch[g]) :
                                   ~outs[j].blocks /\ outs[j].fault = "none"})]_vars

\* A frame whose OCR result was empty is stored and counted, without blocks,
\* next to a frame of the same batch that had text.
C32_Witness ==
    /\ last_batch = <<1, 2>>
    /\ db_frames = {1, 2}
    /\ window_tracking = {1, 2}
    /\ db_blocks = {BlockOf(2)}
    /\ vec_index = {2}
    /\ stats.frames_processed = 2

\* C37: the pipeline writes a text-block row only for a frame that is in the
\* frames table, and a vector only for a block that is in the text_blocks
\* table: in every step the new rows and vectors refer to what is stored,
\* and so does everything the stores of a run hold.
C37_ReferentialOrder ==
    /\ [](/\ \A b \in db_blocks : b.frame_id \in db_frames
          /\ \A f \in vec_index : BlockOf(f) \in db_blocks)
    /\ [][/\ \A b \in db_blocks' \ db_blocks : b.frame_id \in db_frames'
          /\ \A f \in vec_index' \ vec_index : BlockOf(f) \in db_blocks']_vars

\* Frame 1 was stored with its block and its vector; the pair of frame 2
\* failed, and nothing was written for it.
C37_Witness ==
    /\ db_frames = {1}
    /\ db_blocks = {BlockOf(1)}
    /\ vec_index = {1}
    /\ 2 \in attempted
    /\ stats.frames_failed = 1

\* C38: in a run started after a stop() has completed, a pair in which no
\* call is made to fail is persisted as in the first run: the frame is in the
\* frames table after the pair loop.
C38_RestartPersists ==
    [][\A g \in Tasks : \A outs \in [1..Len(batch[g]) -> RunOutcomes] :
          PairLoopRan(g, outs) =>
              \A i \in 1..Len(batch[g]) :
                  outs[i].fault = "none" => batch[g][i] \in db_frames']_vars

\* ------------------------------------------------------------ retention claims
\* C20: once cleanup_old_frames has deleted a frame, no text-block row with
\* its frame id is left and no vector with its frame id is left in the index.
C20_DeletionReachesBothStores ==
    [][\A old \in SUBSET FrameIds : cleanup_old_frames(old) =>
          \A f \in db_frames \ db_frames' :
              /\ ~\E b \in db_blocks' : b.frame_id = f
              /\ f \notin vec_index']_vars

\* -------------------------------------------------------------- search claims
\* C21: when reranking is requested and the reranker raises, search reports
\* no error and returns the candidates in their nearest-neighbour order.
C21_RerankFallback ==
    [][\A s \in Surfaces, cands \in Candidates, scores \in [FrameIds -> RerankScores] :
          Search(s, cands, TRUE, "raises", scores) =>
              matches' = cands /\ ~search_error']_vars

C21_Witness ==
    /\ rerank
    /\ reranker = "raises"
    /\ candidates = <<2, 1>>
    /\ matches = <<2, 1>>
    /\ surface = "ui"

\* C22: on every surface a match whose frame or text block is not in the
\* store is left out without an error, and every result added resolves to a
\* frame and a text block that are in the store.
C22_MissingDropped ==
    [][GetTextBlock =>
          /\ ~search_error'
          /\ IF matches[pos] \in db_frames /\ BlockOf(matches[pos]) \in db_blocks
             THEN search_results' = Append(search_results, matches[pos])
             ELSE search_results' = search_results]_vars

C22_Witness ==
    /\ surface = "api"
    /\ matches = <<1, 2>>
    /\ phase = "idle"
    /\ search_results = <<2>>
    /\ 1 \notin db_frames
    /\ 2 \in db_frames

\* -------------------------------------------------------------- record claims
\* C23: get_frame of an inserted id returns the inserted record field for
\* field, and get_frame of an id that was never inserted or was deleted
\* returns none.
C23_RoundTrip ==
    [][\A id \in FrameIds : FetchFrame(id) =>
          fetched' = IF id \in db_frames THEN frame_data[id] ELSE NoRecord]_vars

\* ------------------------------------------------------------- startup claims
\* The configuration has the credential and an available embedding provider.
Configured ==
    /\ api_key = "present"
    /\ embeddings_enabled => provider \in {"sbert", "openai"} /\ backend_ok

C25_CadenceNotBlocked ==
    /\ cap_at = "due" => thread # "processing"
    /\ proc_at \in {"due", "answered"} => thread # "capture"
\* --------------------------------------------------------------- loop claims
\* The rate C34 asks for in an iteration in which the probe is as given.
TargetRate(probe) ==
    IF enable_adaptive_fps
    THEN IF is_user_active(get_seconds_since_last_input(probe))
         THEN active_fps ELSE idle_fps
    ELSE active_fps

\* C34: the sleep after a capture of the loop that feeds the pipeline queue
\* is max(0, 1/currentFPS - elapsed), with currentFPS the monitor's rate for
\* that iteration in adaptive mode and the configured rate otherwise, and it
\* is never negative.
C34_SleepFollowsRate ==
    [][\A probe \in Probes, el \in ElapsedTimes :
          PipelineIteration(probe, el) =>
              /\ sleep_time' >= 0
              /\ sleep_time' = SleepTime(Interval(TargetRate(probe)), el)]_vars
\* -------------------------------------------------------------- index claims
\* A text that is empty or holds white space only.
WhitespaceOnly(text) == \A i \in 1..Len(text) : text[i] = "sp"

\* What C36 asks a call to add: an entry under the block's id, with the
\* frame's metadata, for every block whose text is not white space only.
Indexed(f, bs) ==
    IF embeddings_enabled
    THEN {Entry(f, bs[i]) : i \in {j \in 1..Len(bs) : ~WhitespaceOnly(bs[j].text)}}
    ELSE {}

ReadsDefaults(i) == \A k \in {"fps", "format"} : get(i, k) = Shipped[k]

\* C39: after reset_all, and after the construction of a Config without a
\* settings file, get returns the shipped default for every key, whatever
\* set calls were made before on any instance.
C39_ResetRestoresDefaults ==
    [][\A i \in Instances :
          /\ reset_all(i) => ReadsDefaults(i)'
          /\ (ConstructConfig(i) /\ settings_file = <<>>) => ReadsDefaults(i)']_vars
\* -------------------------------------------------------------- block claims
\* C40: every text block the OCR stage emits has a confidence between 0 and 1
\* and a content type among code, terminal, prose, ui_element and mixed,
\* whatever the provider answered.
C40_BlocksWellFormed ==
    \A b \in emitted :
        /\ b.confidence >= 0 /\ b.confidence <= 100
        /\ b.block_type \in ContentTypes

====
